---------------------------- MODULE Spec2Model ----------------------------
(***************************************************************************)
(* Viewport-adaptive geodata loading and archive caching of openmander-app *)
(*                                                                         *)
(*   - bounds predicates and padding          (App, lines 28-104, 501-518) *)
(*   - the load scheduler                     (App, lines 326-482, 520-744)*)
(*   - the archive store and its download     (pmtilesCache, 117-325)      *)
(*   - the range-serving fetch interceptor    (pmtilesCache, 331-431)      *)
(*                                                                         *)
(* Geographic coordinates are integers counted in units of BOUNDS_MARGIN   *)
(* (1 unit = 0.0001 degree).  Viewports lie on even coordinates, so the    *)
(* 50% padding of a viewport is an exact integer.                          *)
(***************************************************************************)
EXTENDS Integers, Sequences, FiniteSets, TLC

\* Option values: null / undefined is None, a present value v is Some(v).
None == <<>>
Some(v) == <<v>>
IsSome(o) == o # <<>>
Get(o) == o[1]

(***************************************************************************)
(* STATE                                                                   *)
(***************************************************************************)

\* ---- the load scheduler (App) ---------------------------------------------
VARIABLES
    now,                        \* Date.now()
    mapLoaded,                  \* the map's "load" event has fired
    engineReady,                \* wasm, mapData.wasmMap and plan are set
    zoom,                       \* map.getZoom()
    view,                       \* map.getBounds()
    activeLayer,                \* useState: activeLayer
    mapBounds,                  \* useState: mapBounds (None: null)
    loadedBounds,               \* useState: loadedBounds, layer -> None | Some(bounds)
    geojsonByLayer,             \* useState: geojsonByLayer, layer -> None | Some(data)
    loadingLayer,               \* useState: loadingLayer
    loadingStatus,              \* useState: loadingStatus
    loadedBoundsRef,            \* useRef: loadedBoundsRef
    activeLayerRef,             \* useRef: activeLayerRef
    previousLayerRef,           \* useRef: previousLayerRef
    lastLoadTimeRef,            \* useRef: lastLoadTimeRef
    throttleTimer,              \* the pending timer of throttleTimeoutRef:
                                \*   None | Some([due, newBounds])
    zoomDebounceTimer,          \* the pending timer of zoomDebounceTimeoutRef:
                                \*   None | Some(due)
    loadingRequestRef,          \* useRef: loadingRequestRef, None | Some(request id)
    loadingAbortControllerRef,  \* useRef: loadingAbortControllerRef,
                                \*   None | Some(id of the controller's request)
    inFlight,                   \* the calls of loadCurrentLayer suspended at
                                \*   await loadLayerGeoJSON: request id ->
                                \*   None | Some([layer, bounds, aborted])
    startLog,                   \* observation: when loadCurrentLayer last
                                \*   started a request for each layer, and how
                                \*   long after the start before it
    burst,                      \* observation: the run of "move" events that
                                \*   needed a load, and the throttle timer's
                                \*   firing after them
    lastOutcome,                \* observation: what the last call of
                                \*   loadCurrentLayer that ran to its end did
    gesture                     \* observation: whether the last event of the
                                \*   viewport was a "moveend"

mapVars == <<mapLoaded, engineReady, zoom, view>>
reactVars == <<activeLayer, mapBounds, loadedBounds, geojsonByLayer>>
refVars == <<loadedBoundsRef, activeLayerRef, previousLayerRef, lastLoadTimeRef>>
timerVars == <<throttleTimer, zoomDebounceTimer>>
requestVars == <<loadingRequestRef, loadingAbortControllerRef, inFlight,
                 loadingLayer, loadingStatus, startLog>>
schedVars == <<now, mapVars, reactVars, refVars, timerVars, requestVars, burst,
               lastOutcome, gesture>>

\* ---- the fetch interceptor (pmtilesCache) ---------------------------------
VARIABLES
    cachedPMTilesBuffer,  \* let cachedPMTilesBuffer: ArrayBuffer | null
    fetchCall,            \* the last call of globalThis.fetch: None or
                          \*   Some([input, init, cached]), cached being
                          \*   cachedPMTilesBuffer as that call found it
    fetchResponse,        \* the response that call resolved to
    originalFetchCalls    \* the <<input, init>> that call handed to originalFetch

fetchVars == <<cachedPMTilesBuffer, fetchCall, fetchResponse, originalFetchCalls>>

\* ---- the archive store and its download (pmtilesCache) --------------------
VARIABLES
    db,          \* let db: IDBDatabase | null, as "is the connection open"
    tiles,       \* the object store "tiles": url -> None | Some(CacheEntry)
    originData,  \* the origin: url -> the bytes of the archive it serves
    calls,       \* the calls of loadAndCachePMTiles, by call id
    lastPut,     \* observation: url -> the payload of the last put that
                 \*   succeeded since the store was last cleared, if any
    returned     \* observation: url -> the bytes the last call that completed
                 \*   successfully since the store was last cleared returned

cacheVars == <<db, tiles, originData, calls, lastPut, returned>>

\* ---- a pair of windows, for the bounds predicates on their own ------------
VARIABLES
    boundsA,     \* a viewport window
    boundsB      \* a window it is compared with

boundsVars == <<boundsA, boundsB>>

\* ---- the resolution selector, called on its own (App) ---------------------
VARIABLES
    selZoom,      \* the zoom level of the last call of getLayerForZoom
    selLayer,     \* the layer that call returned (thresholds 8.5 and 11.5)
    selLayerApp,  \* the layer it returned with the thresholds 8 and 12
    selPrevious,  \* previousLayerRef: the layer that was active before it
    selEarlier    \* observation: an earlier call, None | Some([zoom, layer,
                  \*   layerApp])

selVars == <<selZoom, selLayer, selLayerApp, selPrevious, selEarlier>>

\* ---- startup: the pack, the archive and the tile source (App.tsx) ---------
VARIABLES
    wasm,                \* useWasm(): the engine module is loaded
    packPc,              \* where loadIllinoisPack is: "idle", the await it is
                         \*   suspended at, "done" or "failed"
    pmtilesBuffer,       \* what await loadAndCachePMTiles resolved to (None:
                         \*   not yet)
    pmtilesBufferReady,  \* useState: pmtilesBufferReady
    mapInitialized,      \* useState: mapInitialized
    sourceAdded,         \* the map has the vector source "units-all"
    loadingPack,         \* useState: loadingPack
    packStatus           \* useState: loadingStatus (App.tsx), as
                         \*   loadIllinoisPack last set it

startVars == <<wasm, packPc, pmtilesBuffer, pmtilesBufferReady, mapInitialized,
               sourceAdded, loadingPack, packStatus>>

\* ---- installation of the interceptor (pmtilesCache, main.tsx, App.tsx) ----
VARIABLES
    importsDone,          \* the import statements of "./pmtilesCache" that ran
    fetchLayers,          \* the interceptors put on globalThis.fetch, oldest
                          \*   first; each with the fetch it saved (0: the
                          \*   platform's, i: the interceptor fetchLayers[i])
    pmtilesProtocolSetup, \* App.tsx: let pmtilesProtocolSetup
    protocolsAdded,       \* calls of maplibregl.addProtocol
    setupCalls            \* calls of setupPmtilesProtocol

installVars == <<importsDone, fetchLayers, pmtilesProtocolSetup, protocolsAdded,
                 setupCalls>>

\* ---- the user's cache commands (cacheUtils) --------------------------------
VARIABLES
    cleared,     \* observation: the last call of clearCache, None |
                 \*   Some([confirmed, resolved, result, before, after])
    stats        \* observation: the last call of getCacheStats, None |
                 \*   Some([value, store, afterClear])

clearVars == <<cleared, stats>>

\* ---- the plan, as the user changes it (App) --------------------------------
VARIABLES
    planUpdateTrigger   \* useState: planUpdateTrigger

planVars == <<planUpdateTrigger>>

\* ---- the district geometries (App.tsx) -------------------------------------
VARIABLES
    plan,                    \* useState: plan, as the number of the WasmPlan
                             \*   object it holds (0: null)
    planContents,            \* what each WasmPlan object holds: the number of
                             \*   times it was changed in place
    planUpdateTriggerApp,    \* useState: planUpdateTrigger (App.tsx)
    visualizationMode,       \* useState: visualizationMode
    districtGeoJson,         \* useState: districtGeoJson, None or the plan
                             \*   object and contents it was computed from
    computingDistricts,      \* useState: computingDistricts
    districtPlanVersionRef,  \* useRef: districtPlanVersionRef
    computation              \* the call of computeDistrictGeometries that is
                             \*   at its await, with the plan and the
                             \*   planUpdateTrigger of the render it is from

districtVars == <<plan, planContents, planUpdateTriggerApp, visualizationMode,
                  districtGeoJson, computingDistricts, districtPlanVersionRef,
                  computation>>

\* ---- the active layer and the unit layers of the map (App.tsx) -------------
VARIABLES
    tierZoom,          \* map.getZoom(), in tenths of a zoom level
    tierMapLoaded,     \* the map's "load" event has fired: the "zoom" handler
                       \*   is registered and mapInitialized is true
    tierPrevious,      \* useRef: previousLayerRef (App.tsx)
    tierActive,        \* useRef: activeLayerRef (App.tsx)
    tierBufferReady,   \* useState: pmtilesBufferReady
    fillOpacity        \* None until the unit layers are added, then the
                       \*   fill-opacity of each units-<layer>-fill layer, in
                       \*   tenths

tierVars == <<tierZoom, tierMapLoaded, tierPrevious, tierActive, tierBufferReady,
              fillOpacity>>

\* ---- loadPackFromDirectory (loadPack.ts) -----------------------------------
VARIABLES
    fetchOutcome,    \* of each file of loadPromises: "pending", or how its
                     \*   fetch went
    fileResult,      \* of each file: "pending", or what its promise settled
                     \*   with
    tracked,         \* the files whose tracked promise ran its callback
    loadedCount,     \* let loadedCount
    progressCalls,   \* the calls of onProgress, in order
    files,           \* None until the call returns, then the names in files
    loadPc           \* "awaiting" Promise.all, "returned" or "rejected"

packLoadVars == <<fetchOutcome, fileResult, tracked, loadedCount, progressCalls,
                  files, loadPc>>

\* The parts added last.
lateVars == <<districtVars, tierVars, packLoadVars>>

\* The parts added to the four above.
extraVars == <<selVars, startVars, installVars, clearVars, planVars, lateVars>>

vars == <<schedVars, fetchVars, cacheVars, boundsVars, extraVars>>

\* What an action of one part leaves alone: the state of the other parts.
notSchedVars == <<fetchVars, cacheVars, boundsVars, extraVars>>
notFetchVars == <<schedVars, cacheVars, boundsVars, extraVars>>
notCacheVars == <<schedVars, fetchVars, boundsVars, extraVars>>
notBoundsVars == <<schedVars, fetchVars, cacheVars, extraVars>>
mainVars == <<schedVars, fetchVars, cacheVars, boundsVars>>
notSelVars == <<mainVars, startVars, installVars, clearVars, planVars, lateVars>>
notInstallVars == <<mainVars, selVars, startVars, clearVars, planVars, lateVars>>
\* A change of the plan runs the effect again and leaves the rest alone.
notPlanVars == <<now, mapVars, reactVars, refVars, timerVars, burst, lastOutcome, gesture,
                 fetchVars, cacheVars, boundsVars, selVars, startVars,
                 installVars, clearVars, lateVars>>
\* The user's cache commands work on the store and leave the rest alone.
notClearVars == <<schedVars, fetchVars, boundsVars, selVars, startVars,
                  installVars, planVars, lateVars, originData>>
\* The startup activates the interceptor's buffer and leaves the rest alone.
notStartVars == <<schedVars, cacheVars, boundsVars, selVars, installVars,
                  clearVars, planVars, lateVars, fetchCall, fetchResponse,
                  originalFetchCalls>>
\* The district geometries follow the plan and leave the rest alone.
earlyVars == <<mainVars, selVars, startVars, installVars, clearVars, planVars>>
notDistrictVars == <<earlyVars, tierVars, packLoadVars>>
\* The zoom handler and the tile-source effect leave the rest alone.
notTierVars == <<earlyVars, districtVars, packLoadVars>>
\* The loading of the pack files leaves the rest alone.
notPackLoadVars == <<earlyVars, districtVars, tierVars>>

(***************************************************************************)
(* BOUNDS PREDICATES                                                       *)
(***************************************************************************)

\* const BOUNDS_MARGIN = 0.0001: one unit of the coordinate grid.
BOUNDS_MARGIN == 1
\* const BOUNDS_PADDING_FACTOR = 0.5, kept as the fraction 1/2.
BOUNDS_PADDING_NUM == 1
BOUNDS_PADDING_DEN == 2

\* type Bounds = [min_lon, min_lat, max_lon, max_lat]
West(b) == b[1]
South(b) == b[2]
East(b) == b[3]
North(b) == b[4]

isViewportWithinBounds(viewportBounds, loadedB) ==
    /\ West(viewportBounds) >= West(loadedB) - BOUNDS_MARGIN
    /\ South(viewportBounds) >= South(loadedB) - BOUNDS_MARGIN
    /\ East(viewportBounds) <= East(loadedB) + BOUNDS_MARGIN
    /\ North(viewportBounds) <= North(loadedB) + BOUNDS_MARGIN

\* An "exceeds" that applies the margin inwards.
doesViewportExceedBoundsInward(viewportBounds, loadedB) ==
    \/ West(viewportBounds) < West(loadedB) + BOUNDS_MARGIN
    \/ South(viewportBounds) < South(loadedB) + BOUNDS_MARGIN
    \/ East(viewportBounds) > East(loadedB) - BOUNDS_MARGIN
    \/ North(viewportBounds) > North(loadedB) - BOUNDS_MARGIN

doesViewportExceedBounds(viewportBounds, loadedB) ==
    \/ West(viewportBounds) < West(loadedB) - BOUNDS_MARGIN
    \/ South(viewportBounds) < South(loadedB) - BOUNDS_MARGIN
    \/ East(viewportBounds) > East(loadedB) + BOUNDS_MARGIN
    \/ North(viewportBounds) > North(loadedB) + BOUNDS_MARGIN

isViewportOutsideLoadedArea(viewportBounds, loadedB) ==
    \/ West(viewportBounds) < West(loadedB) + BOUNDS_MARGIN
    \/ South(viewportBounds) < South(loadedB) + BOUNDS_MARGIN
    \/ East(viewportBounds) > East(loadedB) - BOUNDS_MARGIN
    \/ North(viewportBounds) > North(loadedB) - BOUNDS_MARGIN

doesRequestCoverBounds(requestBounds, newBounds) ==
    /\ West(newBounds) >= West(requestBounds) - BOUNDS_MARGIN
    /\ South(newBounds) >= South(requestBounds) - BOUNDS_MARGIN
    /\ East(newBounds) <= East(requestBounds) + BOUNDS_MARGIN
    /\ North(newBounds) <= North(requestBounds) + BOUNDS_MARGIN

\* A padding that moves every edge inwards instead of outwards.
calculatePaddedBoundsInward(b) ==
    LET lonPadding == ((East(b) - West(b)) * BOUNDS_PADDING_NUM) \div BOUNDS_PADDING_DEN
        latPadding == ((North(b) - South(b)) * BOUNDS_PADDING_NUM) \div BOUNDS_PADDING_DEN
    IN  <<West(b) + lonPadding, South(b) + latPadding,
          East(b) - lonPadding, North(b) - latPadding>>

\* calculatePaddedBounds, with map.getBounds() as its argument b.
calculatePaddedBounds(b) ==
    LET lonPadding == ((East(b) - West(b)) * BOUNDS_PADDING_NUM) \div BOUNDS_PADDING_DEN
        latPadding == ((North(b) - South(b)) * BOUNDS_PADDING_NUM) \div BOUNDS_PADDING_DEN
    IN  <<West(b) - lonPadding, South(b) - latPadding,
          East(b) + lonPadding, North(b) + latPadding>>

\* west <= east and south <= north
WellFormed(b) == West(b) <= East(b) /\ South(b) <= North(b)


(***************************************************************************)
(* STRINGS                                                                 *)
(* A JavaScript string is a sequence of one-character strings, so that the *)
(* interceptor's regular expression and parseInt work on characters.       *)
(***************************************************************************)

DigitChars == <<"0", "1", "2", "3", "4", "5", "6", "7", "8", "9">>
IsDigit(c) == \E d \in 1..10 : DigitChars[d] = c
DigitVal(c) == (CHOOSE d \in 1..10 : DigitChars[d] = c) - 1

\* Number.prototype.toString() of an integer
RECURSIVE NumStr(_)
NumStr(n) == IF n < 0 THEN <<"-">> \o NumStr(0 - n)
             ELSE IF n < 10 THEN <<DigitChars[n + 1]>>
             ELSE NumStr(n \div 10) \o <<DigitChars[(n % 10) + 1]>>

\* parseInt(s, 10) of a non-empty string of digits
RECURSIVE parseInt(_)
parseInt(s) == IF Len(s) = 1 THEN DigitVal(s[1])
               ELSE 10 * parseInt(SubSeq(s, 1, Len(s) - 1)) + DigitVal(s[Len(s)])

\* length of the longest run of digits of s that starts at index i
RECURSIVE DigitRun(_, _)
DigitRun(s, i) == IF i <= Len(s) /\ IsDigit(s[i]) THEN 1 + DigitRun(s, i + 1) ELSE 0

StrBytesEq == <<"b", "y", "t", "e", "s", "=">>
StrBytesSp == <<"b", "y", "t", "e", "s", " ">>

\* /bytes=(\d+)-(\d+)?/ tried at index i of s: Some(<<match[1], match[2]>>),
\* match[2] being the empty string when the group did not take part.
RangeMatchAt(s, i) ==
    LET p  == i + Len(StrBytesEq)
        n1 == DigitRun(s, p)
        q  == p + n1
        n2 == DigitRun(s, q + 1)
    IN  IF /\ i + Len(StrBytesEq) - 1 <= Len(s)
           /\ SubSeq(s, i, i + Len(StrBytesEq) - 1) = StrBytesEq
           /\ n1 >= 1
           /\ q <= Len(s)
           /\ s[q] = "-"
        THEN Some(<<SubSeq(s, p, q - 1), SubSeq(s, q + 1, q + n2)>>)
        ELSE None

\* rangeHeader.match(/bytes=(\d+)-(\d+)?/): the leftmost match, or null
RangeMatch(s) ==
    LET hits == {i \in 1..Len(s) : IsSome(RangeMatchAt(s, i))}
    IN  IF hits = {} THEN None
        ELSE RangeMatchAt(s, CHOOSE i \in hits : \A j \in hits : i <= j)

(***************************************************************************)
(* RANGE-SERVING FETCH INTERCEPTOR                                         *)
(***************************************************************************)

\* ArrayBuffer.prototype.slice(begin, end) for begin, end >= 0
\* (0-based, end exclusive, both clamped to the length)
BufferSlice(buf, begin, end) ==
    LET first == IF begin < Len(buf) THEN begin ELSE Len(buf)
        final == IF end < Len(buf) THEN end ELSE Len(buf)
    IN  IF final <= first THEN <<>> ELSE SubSeq(buf, first + 1, final)

\* urlStr.includes("geometries.pmtiles"), over the URLs of the model
\* UrlArchive is the archive the application downloads and activates;
\* UrlOtherPack is another archive, whose URL also ends in the file name.
UrlArchive == "http://localhost/packs/geometries.pmtiles"
UrlOther == "http://localhost/packs/manifest.json"
UrlOtherPack == "http://localhost/packs/WI_2020_webpack/geom/geometries.pmtiles"
UrlIncludesArchive(urlStr) == urlStr \in {UrlArchive, UrlOtherPack}

\* key.toLowerCase(), over the header names of the model
HeaderNames == {"Range", "range", "Accept"}
ToLowerCase(key) == IF key \in {"Range", "range"} THEN "range" ELSE "accept"

\* first element of seq entries whose key is one of keys, if any
\* (Array.prototype.find; 0 when there is none)
FirstIndex(entries, keys) ==
    LET hits == {i \in 1..Len(entries) : entries[i][1] \in keys}
    IN  IF hits = {} THEN 0 ELSE CHOOSE i \in hits : \A j \in hits : i <= j

\* The Range header as the interceptor reads it from init.headers, which is
\* None or [kind |-> "Headers" | "array" | "object", entries |-> <<key, value>>*].
RangeHeaderOf(headers) ==
    IF ~IsSome(headers) THEN None
    ELSE LET h == Get(headers)
             ci == FirstIndex(h.entries, {k \in HeaderNames : ToLowerCase(k) = "range"})
             uc == FirstIndex(h.entries, {"Range"})
             lc == FirstIndex(h.entries, {"range"})
         IN  CASE h.kind = "Headers" ->
                    IF ci = 0 THEN None ELSE Some(h.entries[ci][2])
               [] h.kind = "array" ->
                    IF ci = 0 THEN None ELSE Some(h.entries[ci][2])
               [] OTHER ->
                    IF uc # 0 THEN Some(h.entries[uc][2])
                    ELSE IF lc # 0 THEN Some(h.entries[lc][2])
                    ELSE None

\* What originalFetch returns: the origin's answer, tagged with its arguments.
\* A pass-through that hands the original fetch the URL alone.
NetworkResponseNoInit(input, init) ==
    [via |-> "network", status |-> 0, statusText |-> "", body |-> None,
     headers |-> <<>>,
     passed |-> Some(<<input, [method |-> None, headers |-> None]>>)]

\* return originalFetch!(input, init): the response is whatever the original
\* fetch resolves to for these arguments.
NetworkResponse(input, init) ==
    [via |-> "network", status |-> 0, statusText |-> "", body |-> None,
     headers |-> <<>>, passed |-> Some(<<input, init>>)]

LocalResponse(status, statusText, body, headers) ==
    [via |-> "interceptor", status |-> status, statusText |-> statusText,
     body |-> body, headers |-> headers, passed |-> None]

\* Response headers are a sequence of <<name, value>> pairs.
HeaderValue(headers, name) ==
    LET hits == {i \in 1..Len(headers) : headers[i][1] = name}
    IN  IF hits = {} THEN None ELSE Some(headers[CHOOSE i \in hits : TRUE][2])

\* The 206 branch, answering every parsed range with the whole payload.
RangeResponseWhole(buffer, match) ==
    LocalResponse(206, "Partial Content", Some(buffer),
        << <<"Content-Type", "application/octet-stream">>,
           <<"Content-Length", NumStr(Len(buffer))>>,
           <<"Content-Range", StrBytesSp \o NumStr(0) \o <<"-">>
                \o NumStr(Len(buffer)) \o <<"/">> \o NumStr(Len(buffer))>>,
           <<"Accept-Ranges", "bytes">> >>)

\* The 206 branch of the interceptor, match being the regular expression's match.
RangeResponse(buffer, match) ==
    LET start == parseInt(match[1])
        end   == IF match[2] # <<>> THEN parseInt(match[2]) ELSE Len(buffer) - 1
        slice == BufferSlice(buffer, start, end + 1)
    IN  LocalResponse(206, "Partial Content", Some(slice),
            << <<"Content-Type", "application/octet-stream">>,
               <<"Content-Length", NumStr(Len(slice))>>,
               <<"Content-Range", StrBytesSp \o NumStr(start) \o <<"-">>
                    \o NumStr(end) \o <<"/">> \o NumStr(Len(buffer))>>,
               <<"Accept-Ranges", "bytes">> >>)

\* The HEAD branch, wrongly carrying the payload as its body.
HeadResponseWithBody(buffer) ==
    LocalResponse(200, "OK", Some(buffer),
        << <<"Content-Type", "application/octet-stream">>,
           <<"Content-Length", NumStr(Len(buffer))>>,
           <<"Accept-Ranges", "bytes">> >>)

\* The HEAD branch of the interceptor: new Response(null, ...)
HeadResponse(buffer) ==
    LocalResponse(200, "OK", None,
        << <<"Content-Type", "application/octet-stream">>,
           <<"Content-Length", NumStr(Len(buffer))>>,
           <<"Accept-Ranges", "bytes">> >>)

\* The full-file branch, dropping the last byte of the payload.
FullResponseShort(buffer) ==
    LocalResponse(200, "OK", Some(BufferSlice(buffer, 0, Len(buffer) - 1)),
        << <<"Content-Type", "application/octet-stream">>,
           <<"Content-Length", NumStr(Len(buffer))>>,
           <<"Accept-Ranges", "bytes">> >>)

\* The full-file branch of the interceptor: cachedPMTilesBuffer.slice(0)
FullResponse(buffer) ==
    LocalResponse(200, "OK", Some(BufferSlice(buffer, 0, Len(buffer))),
        << <<"Content-Type", "application/octet-stream">>,
           <<"Content-Length", NumStr(Len(buffer))>>,
           <<"Accept-Ranges", "bytes">> >>)

\* globalThis.fetch as replaced by the module: the response to fetch(input, init)
\* while the interceptor's buffer is cached (None or Some(payload)).
\* init is [method |-> None | Some(m), headers |-> None | Some(h)].
InterceptedFetch(cached, input, init) ==
    IF UrlIncludesArchive(input) /\ IsSome(cached)
    THEN LET buffer == Get(cached)
             method == IF IsSome(init.method) THEN Get(init.method) ELSE "GET"
             rangeHeader == RangeHeaderOf(init.headers)
             match == IF IsSome(rangeHeader) /\ Get(rangeHeader) # <<>>
                      THEN RangeMatch(Get(rangeHeader)) ELSE None
         IN  IF method = "HEAD" THEN HeadResponse(buffer)
             ELSE IF IsSome(match) THEN RangeResponse(buffer, Get(match))
             ELSE FullResponse(buffer)
    ELSE NetworkResponse(input, init)


\* ---- inputs of the interceptor -------------------------------------------

\* The longest short payload; payloads hold distinct bytes so that a slice
\* identifies its position.
MaxPayloadLen == 3
LongPayloadLen == 12
PayloadOf(n, base) == [i \in 1..n |-> base + i - 1]
Payloads == {PayloadOf(n, 10) : n \in 0..MaxPayloadLen}
               \cup {PayloadOf(LongPayloadLen, 40)}

\* Byte positions named in Range headers: in and past the short payloads.
RangePositions == 0..MaxPayloadLen

BytesRange(s, e) == StrBytesEq \o NumStr(s) \o <<"-">> \o NumStr(e)
BytesFrom(s) == StrBytesEq \o NumStr(s) \o <<"-">>
\* a suffix range and a range in another unit, which the interceptor's
\* regular expression does not match
SuffixRange == StrBytesEq \o <<"-">> \o NumStr(2)
ItemsRange == <<"i", "t", "e", "m", "s", "=">> \o NumStr(0) \o <<"-">> \o NumStr(1)

\* two-digit positions inside the long payload
LongRangeValues == {BytesRange(LongPayloadLen - 2, LongPayloadLen - 1),
                    BytesFrom(LongPayloadLen - 2)}
RangeHeaderValues ==
    {BytesRange(s, e) : s \in RangePositions, e \in RangePositions}
        \cup {BytesFrom(s) : s \in RangePositions}
        \cup LongRangeValues
        \cup {SuffixRange, ItemsRange}

\* The ways a caller passes headers: a Headers object (PMTiles' FetchSource
\* does), an array of pairs, or a plain object.
HeaderKinds == {"Headers", "array", "object"}
AcceptEntry == <<"Accept", <<"*">> >>
FetchHeaders ==
    {None}
      \cup {Some([kind |-> k, entries |-> <<AcceptEntry>>]) : k \in HeaderKinds}
      \cup {Some([kind |-> "Headers", entries |-> << <<"range", v>> >>]) :
               v \in RangeHeaderValues}
      \cup {Some([kind |-> k, entries |-> << <<n, v>> >>]) :
               k \in HeaderKinds, n \in {"Range", "range"},
               v \in {BytesRange(0, 1), BytesFrom(1)}}
      \cup {Some([kind |-> "array", entries |-> <<AcceptEntry, <<"range", v>> >>]) :
               v \in {BytesRange(0, 1), BytesFrom(1)}}
FetchMethods == {None, Some("GET"), Some("HEAD")}
FetchInits == [method : FetchMethods, headers : FetchHeaders]
\* The calls of fetch: every init for the archive, a few for the other URLs.
FetchRequests ==
    {<<UrlArchive, init>> : init \in FetchInits}
      \cup {<<url, init>> : url \in {UrlOther, UrlOtherPack}, init \in
               {i \in FetchInits : i.headers \in
                   {None, Some([kind |-> "Headers",
                                entries |-> << <<"range", BytesRange(0, 1)>> >>])}}}

\* ---- state of the interceptor ----------------------------------------------


FetchInit ==
    /\ cachedPMTilesBuffer = None
    /\ fetchCall = None
    /\ fetchResponse = None
    /\ originalFetchCalls = <<>>

\* export function setPMTilesBuffer(buffer)
setPMTilesBuffer(buffer) ==
    /\ cachedPMTilesBuffer' = Some(buffer)
    /\ UNCHANGED <<fetchCall, fetchResponse, originalFetchCalls>>
    /\ UNCHANGED notFetchVars

\* globalThis.fetch(input, init)
Fetch(input, init) ==
    LET response == InterceptedFetch(cachedPMTilesBuffer, input, init)
    IN  /\ fetchCall' = Some([input |-> input, init |-> init,
                              cached |-> cachedPMTilesBuffer])
        /\ fetchResponse' = Some(response)
        /\ originalFetchCalls' = IF response.via = "network"
                                 THEN << <<input, init>> >> ELSE <<>>
        /\ UNCHANGED cachedPMTilesBuffer
        /\ UNCHANGED notFetchVars


(***************************************************************************)
(* ARCHIVE STORE (IndexedDB) AND DOWNLOAD                                  *)
(***************************************************************************)

\* The archives of the origin: loadAndCachePMTiles(pmtilesPath) keys the
\* store by window.location.origin + pmtilesPath.
UrlArchive2 == "http://localhost/packs/geometries-v2.pmtiles"
ArchiveUrls == {UrlArchive, UrlArchive2}

\* Number of ensure-cached calls (loadAndCachePMTiles) in a behaviour.
MaxCalls == 2
CallIds == 1..MaxCalls

\* Length of the longest archive the origin serves.
MaxArchiveLen == 2
ArchivePayloads == {PayloadOf(n, 10) : n \in 0..MaxArchiveLen}
\* What the origin serves: any of the payloads as the one archive, the
\* longest one with other bytes as the other.
OriginChoices ==
    {[u \in ArchiveUrls |-> IF u = UrlArchive THEN p ELSE PayloadOf(MaxArchiveLen, 20)] :
        p \in ArchivePayloads}

\* Sum of the lengths of a sequence of chunks: chunks.reduce(...)
RECURSIVE TotalSize(_)
TotalSize(chunks) == IF chunks = <<>> THEN 0
                     ELSE Len(chunks[1]) + TotalSize(Tail(chunks))

\* The chunks copied into one buffer with the latest chunk first.
RECURSIVE CombineChunksLatestFirst(_)
CombineChunksLatestFirst(chunks) ==
    IF chunks = <<>> THEN <<>>
    ELSE CombineChunksLatestFirst(Tail(chunks)) \o chunks[1]

\* The chunks copied one after the other into one buffer (view.set(chunk, offset))
RECURSIVE CombineChunks(_)
CombineChunks(chunks) == IF chunks = <<>> THEN <<>>
                         ELSE chunks[1] \o CombineChunks(Tail(chunks))


\* A call of downloadPMTilesFile.  pc is the await the call is suspended at.
\*   cached   what getCachedFile resolved to
\*   progress the (loaded, total) pairs handed to onProgress, in order
\*   requests how many times the call invoked originalFetch
\* Observations taken when the call passed a point:
\*   prior    the bytes an earlier call for the same url had returned when this
\*            call started (None: no such call, or the store was cleared since),
\*            and whether the store held them then
\*   putSeen  lastPut[url] when getCachedFile read the store
\*   readOk   whether getCachedFile's read of the store succeeded
\*   failedAt the await at which the call threw
\*   puts     the buffers the call handed to cacheFile, in order
IdleCall ==
    [pc |-> "idle", url |-> UrlArchive, onProgress |-> FALSE, cached |-> None,
     total |-> 0, chunks |-> <<>>, loaded |-> 0, progress |-> <<>>,
     result |-> None, requests |-> 0, bodySize |-> 0,
     prior |-> None, putSeen |-> None, readOk |-> FALSE, failedAt |-> "",
     puts |-> <<>>, answered |-> None]

CacheInit ==
    /\ db = FALSE
    /\ tiles = [u \in ArchiveUrls |-> None]
    /\ originData \in OriginChoices
    /\ calls = [c \in CallIds |-> IdleCall]
    /\ lastPut = [u \in ArchiveUrls |-> None]
    /\ returned = [u \in ArchiveUrls |-> None]

\* interface CacheEntry (timestamp: Date.now() is written and never read)
CacheEntry(url, data) == [url |-> url, data |-> data, size |-> Len(data)]

\* A store that files every entry under one key.
StorePutOneKey(store, entry) == [store EXCEPT ![UrlArchive] = Some(entry)]

\* store.put(entry) with keyPath "url"
StorePut(store, entry) == [store EXCEPT ![entry.url] = Some(entry)]

\* store.get(url) followed by entry?.data ?? null
StoreGetData(store, url) ==
    IF IsSome(store[url]) THEN Some(Get(store[url]).data) ELSE None

\* The bytes an earlier call returned for url, with whether the store holds them.
PriorOf(url) ==
    IF IsSome(returned[url])
    THEN Some([bytes |-> Get(returned[url]),
               stored |-> tiles[url] = Some(CacheEntry(url, Get(returned[url])))])
    ELSE None

\* loadAndCachePMTiles(pmtilesPath, onProgress) is called: downloadPMTilesFile
\* runs to its first await, getCachedFile(url).
StartCall(c, url, withProgress) ==
    /\ calls[c].pc = "idle"
    /\ \A b \in CallIds : b < c => calls[b].pc # "idle"
    /\ calls' = [calls EXCEPT ![c] = [IdleCall EXCEPT !.pc = "getCachedFile",
                     !.url = url, !.onProgress = withProgress,
                     !.prior = PriorOf(url)]]
    /\ UNCHANGED <<db, tiles, originData, lastPut, returned, notCacheVars>>

\* What an IndexedDB operation can do: initDB fails to open the database
\* (possible only while no connection is cached), the request or its
\* transaction fails, or it succeeds.
IdbOutcomes == {"ok", "openFailed", "requestFailed"}
IdbPossible(outcome) == outcome = "openFailed" => ~db

\* A call returns: the promise of downloadPMTilesFile resolves with buffer.
Resolve(call, buffer) == [call EXCEPT !.pc = "done", !.result = Some(buffer)]
\* A call throws: the promise rejects (failedAt: the await it was at).
Reject(call) == [call EXCEPT !.pc = "failed", !.failedAt = call.pc]

\* getCachedFile reading the store under a key other than the one asked for.
GetCachedFileOtherKey(url) ==
    StoreGetData(tiles, CHOOSE u \in ArchiveUrls : u # url)

\* getCachedFile(url) when the database opens and the request succeeds
GetCachedFileValue(url) == StoreGetData(tiles, url)

\* await getCachedFile(url) completes in call c.
\*   openFailed: caught inside getCachedFile, which resolves to null
\*   requestFailed: the promise returned from inside the try block rejects, and
\*                  the rejection leaves getCachedFile and downloadPMTilesFile
GetCachedStep(c, outcome) ==
    LET call == calls[c]
        cached == IF outcome = "ok" THEN GetCachedFileValue(call.url) ELSE None
        seen == [call EXCEPT !.cached = cached, !.putSeen = lastPut[call.url],
                             !.readOk = (outcome = "ok")]
    IN  /\ call.pc = "getCachedFile"
        /\ IdbPossible(outcome)
        /\ db' = IF outcome = "openFailed" THEN db ELSE TRUE
        /\ calls' = [calls EXCEPT ![c] =
              IF outcome = "requestFailed" THEN Reject(seen)
              ELSE IF IsSome(cached) THEN Resolve(seen, Get(cached))
              ELSE [seen EXCEPT !.pc = "fetch"]]
        /\ returned' = IF outcome # "requestFailed" /\ IsSome(cached)
                       THEN [returned EXCEPT ![call.url] = cached] ELSE returned
        /\ UNCHANGED <<tiles, originData, lastPut, notCacheVars>>

\* The Content-Length headers the origin may send with a body of size bytes:
\* none, the size, or (a compressed transfer) less than the size.
ContentLengths(size) ==
    {None, Some(NumStr(size))} \cup (IF size >= 2 THEN {Some(NumStr(size - 1))} ELSE {})

\* The download calling the fetch that globalThis holds, the interceptor.
DownloadFetchIntercepted(cached, url) ==
    InterceptedFetch(cached, url, [method |-> None, headers |-> None])

\* getOriginalFetch()(url): the fetch saved before the interceptor replaced
\* it is called with the URL alone
DownloadFetch(cached, url) ==
    NetworkResponse(url, [method |-> None, headers |-> None])

\* await originalFetchFn(url) completes in call c.
\*   "error": the fetch rejects; "notOk": response.ok is false;
\*   "noBody": response.body is null; "ok": a readable body follows
FetchStep(c, outcome, contentLength) ==
    LET call == calls[c]
        asked == [call EXCEPT !.requests = call.requests + 1,
                     !.answered =
                        Some([via |-> DownloadFetch(cachedPMTilesBuffer, call.url).via,
                              buffer |-> cachedPMTilesBuffer])]
        total == IF IsSome(contentLength) /\ Get(contentLength) # <<>>
                 THEN parseInt(Get(contentLength)) ELSE 0
    IN  /\ call.pc = "fetch"
        /\ contentLength \in ContentLengths(Len(originData[call.url]))
        /\ outcome # "ok" => contentLength = None
        /\ calls' = [calls EXCEPT ![c] =
              IF outcome = "ok"
              THEN [asked EXCEPT !.pc = "read", !.total = total,
                                 !.bodySize = Len(originData[call.url])]
              ELSE Reject(asked)]
        /\ UNCHANGED <<db, tiles, originData, lastPut, returned, notCacheVars>>

\* The progress count as a bug would keep it: the size of the last chunk.
LoadedAfterLastOnly(loaded, value) == Len(value)

\* loaded += value.length
LoadedAfter(loaded, value) == loaded + Len(value)

\* await reader.read() completes in call c with the next n bytes of the body.
ReadChunk(c, n) ==
    LET call == calls[c]
        data == originData[call.url]
        sent == TotalSize(call.chunks)
        value == SubSeq(data, sent + 1, sent + n)
        loaded == LoadedAfter(call.loaded, value)
    IN  /\ call.pc = "read"
        /\ n >= 1
        /\ sent + n <= Len(data)
        /\ calls' = [calls EXCEPT ![c] =
              [call EXCEPT !.chunks = Append(call.chunks, value),
                           !.loaded = loaded,
                           !.progress = IF call.onProgress /\ call.total > 0
                                        THEN Append(call.progress, <<loaded, call.total>>)
                                        ELSE call.progress]]
        /\ UNCHANGED <<db, tiles, originData, lastPut, returned, notCacheVars>>

\* await reader.read() rejects in call c: reader.cancel(), and the error is
\* thrown on.
ReadError(c) ==
    /\ calls[c].pc = "read"
    /\ calls' = [calls EXCEPT ![c] = Reject(calls[c])]
    /\ UNCHANGED <<db, tiles, originData, lastPut, returned, notCacheVars>>

\* await reader.read() reports done in call c: the chunks are combined and
\* cacheFile(url, buffer) is awaited.
ReadDone(c) ==
    LET call == calls[c]
    IN  /\ call.pc = "read"
        /\ TotalSize(call.chunks) = Len(originData[call.url])
        /\ calls' = [calls EXCEPT ![c] =
              [call EXCEPT !.pc = "cacheFile",
                           !.puts = Append(call.puts, CombineChunks(call.chunks))]]
        /\ UNCHANGED <<db, tiles, originData, lastPut, returned, notCacheVars>>

\* await cacheFile(url, buffer) completes in call c.
\*   openFailed: caught inside cacheFile, which resolves without writing
\*   requestFailed: the rejection leaves cacheFile and downloadPMTilesFile
CacheFileStep(c, outcome) ==
    LET call == calls[c]
        buffer == CombineChunks(call.chunks)
    IN  /\ call.pc = "cacheFile"
        /\ IdbPossible(outcome)
        /\ db' = IF outcome = "openFailed" THEN db ELSE TRUE
        /\ tiles' = IF outcome = "ok"
                    THEN StorePut(tiles, CacheEntry(call.url, buffer)) ELSE tiles
        /\ lastPut' = IF outcome = "ok"
                      THEN [lastPut EXCEPT ![call.url] = Some(buffer)] ELSE lastPut
        /\ calls' = [calls EXCEPT ![c] =
              IF outcome = "requestFailed" THEN Reject(call)
              ELSE Resolve(call, buffer)]
        /\ returned' = IF outcome # "requestFailed"
                       THEN [returned EXCEPT ![call.url] = Some(buffer)] ELSE returned
        /\ UNCHANGED <<originData, notCacheVars>>

\* What the fetch interceptor and the startup hold, the active buffer apart.
notBufferVars == <<schedVars, boundsVars, extraVars, fetchCall, fetchResponse,
                   originalFetchCalls>>

\* A clearing of the cache that drops the interceptor's buffer with it.
BufferAfterClearDropped(cached) == None

\* clearPMTilesCache() works on the object store and has no assignment to
\* cachedPMTilesBuffer
BufferAfterClear(cached) == cached

\* clearPMTilesCache(): store.clear().  A failure to open is caught and
\* nothing is cleared; a failed request rejects and nothing is cleared.
ClearCache(outcome) ==
    /\ IdbPossible(outcome)
    /\ db' = IF outcome = "openFailed" THEN db ELSE TRUE
    /\ tiles' = IF outcome = "ok" THEN [u \in ArchiveUrls |-> None] ELSE tiles
    /\ lastPut' = IF outcome = "ok" THEN [u \in ArchiveUrls |-> None] ELSE lastPut
    /\ returned' = IF outcome = "ok" THEN [u \in ArchiveUrls |-> None] ELSE returned
    /\ calls' = IF outcome = "ok"
                THEN [c \in CallIds |-> [calls[c] EXCEPT !.prior = None, !.putSeen = None]]
                ELSE calls
    /\ cachedPMTilesBuffer' = BufferAfterClear(cachedPMTilesBuffer)
    /\ UNCHANGED <<originData, notBufferVars>>

\* The page is loaded again: the module starts over with db = null and
\* cachedPMTilesBuffer = null, and the calls of the old page are gone; the
\* object store persists.
Reload ==
    /\ db
    /\ db' = FALSE
    /\ calls' = [c \in CallIds |->
                   IF calls[c].pc \in {"idle", "done", "failed"} THEN calls[c]
                   ELSE [calls[c] EXCEPT !.pc = "gone"]]
    /\ cachedPMTilesBuffer' = None
    /\ UNCHANGED <<tiles, originData, lastPut, returned, notBufferVars>>

CacheNext ==
    \/ \E c \in CallIds, u \in ArchiveUrls, p \in BOOLEAN : StartCall(c, u, p)
    \/ \E c \in CallIds, o \in IdbOutcomes : GetCachedStep(c, o)
    \/ \E c \in CallIds, o \in {"ok", "error", "notOk", "noBody"} :
          \E cl \in {None} \cup {Some(NumStr(n)) : n \in 0..MaxArchiveLen} :
             FetchStep(c, o, cl)
    \/ \E c \in CallIds, n \in 1..MaxArchiveLen : ReadChunk(c, n)
    \/ \E c \in CallIds : ReadError(c)
    \/ \E c \in CallIds : ReadDone(c)
    \/ \E c \in CallIds, o \in IdbOutcomes : CacheFileStep(c, o)
    \/ \E o \in IdbOutcomes : ClearCache(o)
    \/ Reload

\* Downloads that meet no failure, while payloads are activated and the
\* cache is cleared.
RedownloadNext ==
    \/ \E c \in CallIds : StartCall(c, UrlArchive, FALSE)
    \/ \E c \in CallIds : GetCachedStep(c, "ok")
    \/ \E c \in CallIds : FetchStep(c, "ok", None)
    \/ \E c \in CallIds, n \in 1..MaxArchiveLen : ReadChunk(c, n)
    \/ \E c \in CallIds : ReadDone(c)
    \/ \E c \in CallIds : CacheFileStep(c, "ok")
    \/ ClearCache("ok")
    \/ \E buffer \in ArchivePayloads : setPMTilesBuffer(buffer)

\* The requests of the renderer for the archive and of the application for
\* another file, without init.
PlainRequests ==
    {<<url, [method |-> None, headers |-> None]>> : url \in {UrlArchive, UrlOther}}

\* The operations of module pmtilesCache within one page: downloads that
\* meet no failure, clearPMTilesCache, setPMTilesBuffer and fetch.
ActiveNext ==
    \/ \E c \in CallIds : StartCall(c, UrlArchive, FALSE)
    \/ \E c \in CallIds : GetCachedStep(c, "ok")
    \/ \E c \in CallIds : FetchStep(c, "ok", None)
    \/ \E c \in CallIds, n \in 1..MaxArchiveLen : ReadChunk(c, n)
    \/ \E c \in CallIds : ReadDone(c)
    \/ \E c \in CallIds : CacheFileStep(c, "ok")
    \/ \E o \in IdbOutcomes : ClearCache(o)
    \/ \E buffer \in ArchivePayloads : setPMTilesBuffer(buffer)
    \/ \E request \in PlainRequests : Fetch(request[1], request[2])

FetchNext ==
    \/ \E buffer \in Payloads : setPMTilesBuffer(buffer)
    \/ \E request \in FetchRequests : Fetch(request[1], request[2])

(***************************************************************************)
(* LOAD SCHEDULER                                                          *)
(***************************************************************************)

\* Zoom levels are counted in tenths, times in milliseconds.
THROTTLE_DELAY_MS == 150
ZOOM_DEBOUNCE_MS == 300
ZOOM_THRESHOLD_COUNTY_TO_VTD == 85
ZOOM_THRESHOLD_VTD_TO_BLOCK == 115
DEFAULT_ZOOM == 60
DEFAULT_LAYER == "county"

Layers == {"county", "vtd", "block"}

\* getLayerForZoom with the first comparison inclusive
getLayerForZoomInclusive(z) ==
    IF z <= ZOOM_THRESHOLD_COUNTY_TO_VTD THEN "county"
    ELSE IF z < ZOOM_THRESHOLD_VTD_TO_BLOCK THEN "vtd"
    ELSE "block"

\* getLayerForZoom holding on to the vtd layer for half a zoom level below
\* the first threshold
getLayerForZoomSticky(z) ==
    IF selLayer = "vtd" /\ z < ZOOM_THRESHOLD_COUNTY_TO_VTD
                        /\ z >= ZOOM_THRESHOLD_COUNTY_TO_VTD - 5 THEN "vtd"
    ELSE IF z < ZOOM_THRESHOLD_COUNTY_TO_VTD THEN "county"
    ELSE IF z < ZOOM_THRESHOLD_VTD_TO_BLOCK THEN "vtd"
    ELSE "block"

getLayerForZoom(z) ==
    IF z < ZOOM_THRESHOLD_COUNTY_TO_VTD THEN "county"
    ELSE IF z < ZOOM_THRESHOLD_VTD_TO_BLOCK THEN "vtd"
    ELSE "block"

\* ---- the map, as the user moves it -----------------------------------------

\* The viewports map.getBounds() returns: the initial one, one panned by half
\* its width, and one far away.
ViewHome == <<0, 0, 4, 4>>
ViewNear == <<2, 0, 6, 4>>
ViewFar == <<12, 0, 16, 4>>
Views == {ViewHome, ViewNear, ViewFar}
\* The viewports of the behaviours that also zoom.
ZoomViews == {ViewHome, ViewFar}
\* The zoom levels map.getZoom() returns: the initial one, and one past the
\* first threshold.
Zooms == {DEFAULT_ZOOM, 90}

\* The clock Date.now() starts at StartTime.  It is read at the start of each
\* of the throttle periods that follow, and BurstSpan milliseconds later.
StartTime == 1000
BurstSpan == 10
MaxPeriods == 2
Instants == {StartTime + THROTTLE_DELAY_MS * k + j :
                k \in 0..MaxPeriods, j \in {0, BurstSpan}}
\* Time passes in steps of these lengths.
TickSteps == {BurstSpan, THROTTLE_DELAY_MS - BurstSpan, THROTTLE_DELAY_MS}

\* Loads that may be in flight (awaiting loadLayerGeoJSON) at once.
MaxInFlight == 2
RequestIds == 1..MaxInFlight


NoLayers == [l \in Layers |-> None]

\* No "move" event that needed a load has been seen since the last other event.
\*   watching  whether runs of "move" events are observed in this behaviour
\*   first     when the first event of the run arrived (0 once the run is over)
\*   events    <<[target, immediate, started]>>: the padded window the event
\*             asked for, whether it called setMapBounds at once, and whether
\*             loadCurrentLayer then started a request
\*   fired     None | Some([target, started]): the throttle timer ran after them
NoBurst == [watching |-> TRUE, first |-> 0, events |-> <<>>, fired |-> None]
NotWatching == [NoBurst EXCEPT !.watching = FALSE]

SchedInit ==
    /\ now = StartTime
    /\ mapLoaded = FALSE
    /\ engineReady = FALSE
    /\ zoom = DEFAULT_ZOOM
    /\ view = ViewHome
    /\ activeLayer = DEFAULT_LAYER
    /\ mapBounds = None
    /\ loadedBounds = NoLayers
    /\ geojsonByLayer = NoLayers
    /\ loadingLayer = FALSE
    /\ loadingStatus = ""
    /\ loadedBoundsRef = NoLayers
    /\ activeLayerRef = DEFAULT_LAYER
    /\ previousLayerRef = DEFAULT_LAYER
    /\ lastLoadTimeRef = 0
    /\ throttleTimer = None
    /\ zoomDebounceTimer = None
    /\ loadingRequestRef = None
    /\ loadingAbortControllerRef = None
    /\ inFlight = [r \in RequestIds |-> None]

\* ---- loadCurrentLayer, run by the effect on
\* ---- [plan, wasm, planUpdateTrigger, activeLayer, mapBounds, mapData] -------

\* isViewportWithinLoadedBounds(viewportBounds, layer) over the state loaded
isViewportWithinLoadedBounds(viewportBounds, layer, loaded) ==
    /\ IsSome(viewportBounds)
    /\ IsSome(loaded[layer])
    /\ isViewportWithinBounds(Get(viewportBounds), Get(loaded[layer]))

\* A loadCurrentLayer without the check of the current request.
CoveredByCurrentRequestNever(layer, bounds) == FALSE

\* "there's already a loading request that covers this viewport"
CoveredByCurrentRequest(layer, bounds) ==
    /\ IsSome(loadingRequestRef)
    /\ IsSome(inFlight[Get(loadingRequestRef)])
    /\ LET currentRequest == Get(inFlight[Get(loadingRequestRef)])
       IN  /\ currentRequest.layer = layer
           /\ doesRequestCoverBounds(currentRequest.bounds, Get(bounds))

\* loadCurrentLayer reaches "Cancel any previous loading request": the engine
\* is there, mapBounds is set, and neither the loaded bounds nor the current
\* request cover it.
LoadWanted(ready, layer, bounds, loaded) ==
    /\ ready
    /\ IsSome(bounds)
    /\ ~isViewportWithinLoadedBounds(bounds, layer, loaded)
    /\ ~CoveredByCurrentRequest(layer, bounds)

\* A loadCurrentLayer that leaves the previous request running.
AbortPreviousNot(flights, controllerRef) == flights

\* if (loadingAbortControllerRef.current) loadingAbortControllerRef.current.abort()
AbortPrevious(flights, controllerRef) ==
    IF IsSome(controllerRef) /\ IsSome(flights[Get(controllerRef)])
    THEN [flights EXCEPT ![Get(controllerRef)] =
             Some([Get(flights[Get(controllerRef)]) EXCEPT !.aborted = TRUE])]
    ELSE flights

\* What is known of the starts of requests:
\*   watching  whether they are observed in this behaviour
\*   last      layer -> None | Some(the time of the last start for the layer)
\*   gap       None | Some(the time from the start before the last one for
\*             its layer to the last one)
NoStarts == [watching |-> TRUE, last |-> [l \in {"county", "vtd", "block"} |-> None],
             gap |-> None]
StartsNotWatched == [NoStarts EXCEPT !.watching = FALSE]

\* The log after a request for layer is started at time t.
StartLogged(layer, t) ==
    IF ~startLog.watching THEN startLog
    ELSE [startLog EXCEPT !.last[layer] = Some(t),
                          !.gap = IF IsSome(startLog.last[layer])
                                  THEN Some(t - Get(startLog.last[layer]))
                                  ELSE None]

FreeIds == {r \in RequestIds : ~IsSome(inFlight[r])}

\* loadCurrentLayer from the cancellation of the previous request to its await
StartLoad(layer, bounds) ==
    /\ FreeIds # {}
    /\ LET requestId == CHOOSE r \in FreeIds : \A q \in FreeIds : r <= q
       IN  /\ inFlight' = [AbortPrevious(inFlight, loadingAbortControllerRef)
                             EXCEPT ![requestId] =
                                Some([layer |-> layer, bounds |-> Get(bounds),
                                      aborted |-> FALSE])]
           /\ loadingAbortControllerRef' = Some(requestId)
           /\ loadingRequestRef' = Some(requestId)
    /\ loadingLayer' = TRUE
    /\ loadingStatus' = "Loading layer..."
    /\ startLog' = StartLogged(layer, now)

\* The effect runs loadCurrentLayer with the state of the render that
\* scheduled it.
RunEffect(ready, layer, bounds, loaded) ==
    IF LoadWanted(ready, layer, bounds, loaded)
    THEN StartLoad(layer, bounds)
    ELSE UNCHANGED requestVars

\* The effect runs when a dependency changed: setMapBounds was called (a new
\* array each time) or activeLayer has a new value.
EffectIf(depsChanged) ==
    IF depsChanged
    THEN RunEffect(engineReady, activeLayer', mapBounds', loadedBounds')
    ELSE UNCHANGED requestVars

\* The effect of this step starts a request.
EffectStarts(depsChanged) ==
    depsChanged /\ LoadWanted(engineReady, activeLayer', mapBounds', loadedBounds')

\* A switch of layers that keeps the loaded bounds of the layer it turns to.
DeleteLayerNot(loaded, layer) == loaded

\* setLoadedBounds(prev => { const updated = {...prev}; delete updated[layer] })
DeleteLayer(loaded, layer) == [loaded EXCEPT ![layer] = None]

\* ---- the continuation of loadCurrentLayer after its await ------------------

\* A check that lets every result through.
IsSupersededNever(r) == FALSE

\* abortController.signal.aborted || loadingRequestRef.current !== requestId
IsSuperseded(r) ==
    Get(inFlight[r]).aborted \/ loadingRequestRef # Some(r)

\* A finally block that clears the controller whoever owns it.
FinallyControllerAlways(r) == None

\* finally: the controller is cleared if it is still this request's
FinallyController(r) ==
    IF loadingAbortControllerRef = Some(r) THEN None ELSE loadingAbortControllerRef

\* The data to_geojson returns for a layer and a window.
LayerData(layer, bounds) == [layer |-> layer, bounds |-> bounds]

\* The smallest window that holds both a and b.
UnionOf(a, b) ==
    <<IF West(a) < West(b) THEN West(a) ELSE West(b),
      IF South(a) < South(b) THEN South(a) ELSE South(b),
      IF East(a) > East(b) THEN East(a) ELSE East(b),
      IF North(a) > North(b) THEN North(a) ELSE North(b)>>

\* A setLoadedBounds that widens what was loaded by the new window.
WithLoadedUnion(loaded, layer, bounds) ==
    [loaded EXCEPT ![layer] = IF IsSome(loaded[layer])
                              THEN Some(UnionOf(Get(loaded[layer]), bounds))
                              ELSE Some(bounds)]

\* setLoadedBounds((prev) => ({ ...prev, [activeLayer]: mapBounds }))
WithLoaded(loaded, layer, bounds) == [loaded EXCEPT ![layer] = Some(bounds)]

\* What a call of loadCurrentLayer did after its await, as observed:
\*   applied   setGeojsonByLayer and setLoadedBounds were called with its result
\*   dropped   it returned at "cancelled or superseded" without a trace
\*   reported  it reported a failure (console.warn of the else branch, or
\*             console.error and the status "Error loading layer" of the catch)
NotObserved == [observed |-> FALSE]
NoOutcome == [observed |-> TRUE, completed |-> FALSE]
Outcome(r, req, applied, dropped, reported) ==
    [observed |-> TRUE, completed |-> TRUE, request |-> r, layer |-> req.layer,
     applied |-> applied, dropped |-> dropped, reported |-> reported]

\* What await loadLayerGeoJSON and the rest of the try block can do:
\*   "ok"         a feature collection came back and was applied
\*   "null"       loadLayerGeoJSON returned null
\*   "throws"     the try block threw before the result was applied
\*                (a feature that is null in the loop over the features)
\*   "throwsLate" the try block threw after the result was applied
\*                (plan.assignments_u32(), which only the block layer calls)
LoadOutcomes == {"ok", "null", "throws", "throwsLate"}

\* The result was applied before the try block ended or threw.
ResultApplied(outcome) == outcome \in {"ok", "throwsLate"}
\* The catch block was entered.
Caught(outcome) == outcome \in {"throws", "throwsLate"}

\* A request that leaves the loading flag as it finds it.
LoadingAfterKept(r) == loadingLayer

\* if (loadingRequestRef.current === requestId) setLoadingLayer(false), at the
\* end of the try block and of the catch block
LoadingAfter(r) == IF loadingRequestRef = Some(r) THEN FALSE ELSE loadingLayer

\* await loadLayerGeoJSON(activeLayer, mapBounds) completes for request r
CompleteLoad(r, outcome) ==
    /\ IsSome(inFlight[r])
    /\ outcome = "throwsLate" => Get(inFlight[r]).layer = "block"
    /\ LET req == Get(inFlight[r])
       IN  /\ inFlight' = [inFlight EXCEPT ![r] = None]
           /\ loadingAbortControllerRef' = FinallyController(r)
           /\ IF IsSuperseded(r)
              THEN /\ UNCHANGED <<geojsonByLayer, loadedBounds, loadedBoundsRef,
                                  loadingStatus, loadingRequestRef, loadingLayer>>
                   /\ lastOutcome' = IF lastOutcome.observed
                                     THEN Outcome(r, req, FALSE, TRUE, FALSE)
                                     ELSE lastOutcome
              ELSE /\ IF ResultApplied(outcome)
                      THEN /\ geojsonByLayer' = [geojsonByLayer EXCEPT ![req.layer] =
                                                   Some(LayerData(req.layer, req.bounds))]
                           /\ loadedBounds' = WithLoaded(loadedBounds, req.layer,
                                                         req.bounds)
                           /\ loadedBoundsRef' = loadedBounds'
                      ELSE UNCHANGED <<geojsonByLayer, loadedBounds, loadedBoundsRef>>
                   /\ loadingStatus' = IF Caught(outcome)
                                       THEN "Error loading layer" ELSE ""
                   /\ loadingRequestRef' = IF loadingRequestRef = Some(r)
                                           THEN None ELSE loadingRequestRef
                   /\ loadingLayer' = LoadingAfter(r)
                   /\ lastOutcome' = IF lastOutcome.observed
                                     THEN Outcome(r, req, ResultApplied(outcome), FALSE,
                                                  outcome # "ok")
                                     ELSE lastOutcome
    /\ UNCHANGED <<now, mapVars, activeLayer, mapBounds, activeLayerRef,
                   previousLayerRef, lastLoadTimeRef, timerVars, burst, startLog,
                   gesture, notSchedVars>>

\* ---- the map's event handlers ----------------------------------------------

\* An updateBoundsDuringPan that decides as the "moveend" handler does.
ShouldLoadByExceeds(viewport) ==
    LET loaded == loadedBoundsRef[activeLayerRef]
    IN  ~IsSome(loaded) \/ doesViewportExceedBounds(viewport, Get(loaded))

\* updateBoundsDuringPan decides to load: nothing is loaded for the active
\* layer, or the viewport left the loaded area.
ShouldLoad(viewport) ==
    LET loaded == loadedBoundsRef[activeLayerRef]
    IN  ~IsSome(loaded) \/ isViewportOutsideLoadedArea(viewport, Get(loaded))

\* A throttle that lets every load through at once.
LoadsImmediatelyAlways(t) == TRUE

\* timeSinceLastLoad >= THROTTLE_DELAY_MS at time t
LoadsImmediately(t) == t - lastLoadTimeRef >= THROTTLE_DELAY_MS

\* updateBoundsDuringPan() with the map at viewport: what it does to
\* lastLoadTimeRef and the throttle timer, and the bounds it hands to
\* setMapBounds, if any.
updateBoundsDuringPan(viewport) ==
    LET newBounds == calculatePaddedBounds(viewport)
    IN  IF ~ShouldLoad(viewport)
        THEN [lastLoadTimeRef |-> lastLoadTimeRef, throttleTimer |-> throttleTimer,
              setMapBounds |-> None]
        ELSE IF LoadsImmediately(now)
        THEN [lastLoadTimeRef |-> now, throttleTimer |-> throttleTimer,
              setMapBounds |-> Some(newBounds)]
        ELSE [lastLoadTimeRef |-> lastLoadTimeRef,
              throttleTimer |-> Some([due |-> now + (THROTTLE_DELAY_MS - (now - lastLoadTimeRef)),
                                      newBounds |-> newBounds]),
              setMapBounds |-> None]

\* Events observed as one run: BurstLength of them, the last at most
\* BurstSpan after the first.
BurstLength == 3

\* The run of events after one more "move" event that needed a load: a run
\* is over with its last event or with the timer's firing.
BurstAfterMove(event) ==
    IF ~burst.watching THEN burst
    ELSE IF burst.events = <<>> \/ Len(burst.events) >= BurstLength
               \/ IsSome(burst.fired)
    THEN [NoBurst EXCEPT !.first = now, !.events = <<event>>]
    ELSE [burst EXCEPT !.first = IF Len(burst.events) + 1 = BurstLength
                                 THEN 0 ELSE burst.first,
                       !.events = Append(burst.events, event)]

\* The run is over: another event arrived.
BurstOver == IF burst.watching THEN NoBurst ELSE burst

\* The run of events as time passes to t: a run that cannot be completed
\* within BurstSpan is forgotten.
BurstAfterTick(t) ==
    IF burst.events # <<>> /\ Len(burst.events) < BurstLength
          /\ ~IsSome(burst.fired) /\ t - burst.first > BurstSpan
    THEN BurstOver ELSE burst

\* The viewport's last event, where that is observed.
GestureNotWatched == "unwatched"
GestureAfter(event) == IF gesture = GestureNotWatched THEN gesture ELSE event

\* The handlers of "move" events: map.on("move", updateBoundsDuringPan), the
\* map having moved to another viewport v at the same zoom.
Move(v) ==
    /\ mapLoaded
    /\ v # view
    /\ view' = v
    /\ gesture' = GestureAfter("moving")
    /\ LET pan == updateBoundsDuringPan(v)
       IN  /\ lastLoadTimeRef' = pan.lastLoadTimeRef
           /\ throttleTimer' = pan.throttleTimer
           /\ mapBounds' = IF IsSome(pan.setMapBounds) THEN pan.setMapBounds ELSE mapBounds
           /\ UNCHANGED <<activeLayer, loadedBounds>>
           /\ EffectIf(IsSome(pan.setMapBounds))
           /\ burst' = IF ShouldLoad(v)
                        THEN BurstAfterMove([target |-> calculatePaddedBounds(v),
                                 immediate |-> IsSome(pan.setMapBounds),
                                 started |-> EffectStarts(IsSome(pan.setMapBounds))])
                        ELSE BurstOver
    /\ UNCHANGED <<now, mapLoaded, engineReady, zoom, geojsonByLayer,
                   loadedBoundsRef, activeLayerRef, previousLayerRef,
                   zoomDebounceTimer, lastOutcome,
                   notSchedVars>>

\* The handlers of a zoom step to level z with viewport v, run in one task:
\* map.on("move") and then map.on("zoom").
Zoom(z, v) ==
    /\ mapLoaded
    /\ z # zoom
    /\ zoom' = z
    /\ gesture' = GestureAfter("moving")
    /\ view' = v
    /\ LET pan == updateBoundsDuringPan(v)
           newLayer == getLayerForZoom(z)
           crossed == newLayer # previousLayerRef
       IN  /\ lastLoadTimeRef' = pan.lastLoadTimeRef
           /\ throttleTimer' = pan.throttleTimer
           /\ previousLayerRef' = IF crossed THEN newLayer ELSE previousLayerRef
           /\ activeLayerRef' = IF crossed THEN newLayer ELSE activeLayerRef
           /\ activeLayer' = IF crossed THEN newLayer ELSE activeLayer
           /\ loadedBounds' = IF crossed THEN DeleteLayer(loadedBounds, newLayer)
                              ELSE loadedBounds
           /\ loadedBoundsRef' = IF crossed THEN loadedBounds' ELSE loadedBoundsRef
           /\ mapBounds' = IF crossed THEN Some(calculatePaddedBounds(v))
                           ELSE IF IsSome(pan.setMapBounds) THEN pan.setMapBounds
                           ELSE mapBounds
           /\ EffectIf(crossed \/ IsSome(pan.setMapBounds))
    /\ burst' = BurstOver
    /\ UNCHANGED <<now, mapLoaded, engineReady, geojsonByLayer, zoomDebounceTimer,
                   lastOutcome,
                   notSchedVars>>

\* What the handlers of "moveend" and of the debounced "zoomend" do once the
\* layer for the zoom is known: switch to it, or reload if the viewport
\* exceeds what is loaded.  syncRef: the handler copies the state into
\* loadedBoundsRef when it deletes the new layer's bounds.
SettleOnLayer(syncRef) ==
    LET newLayer == getLayerForZoom(zoom)
        crossed == newLayer # previousLayerRef
        loaded == loadedBoundsRef[newLayer]
        reload == ~IsSome(loaded) \/ doesViewportExceedBounds(view, Get(loaded))
    IN  /\ previousLayerRef' = newLayer
        /\ activeLayerRef' = IF crossed THEN newLayer ELSE activeLayerRef
        /\ activeLayer' = IF crossed THEN newLayer ELSE activeLayer
        /\ loadedBounds' = IF crossed THEN DeleteLayer(loadedBounds, newLayer)
                           ELSE loadedBounds
        /\ loadedBoundsRef' = IF crossed /\ syncRef THEN loadedBounds'
                              ELSE loadedBoundsRef
        /\ mapBounds' = IF crossed \/ reload THEN Some(calculatePaddedBounds(view))
                        ELSE mapBounds
        /\ EffectIf(crossed \/ reload)

\* map.on("moveend")
MoveEnd ==
    /\ mapLoaded
    /\ throttleTimer' = None
    /\ gesture' = GestureAfter("ended")
    /\ SettleOnLayer(TRUE)
    /\ burst' = BurstOver
    /\ UNCHANGED <<now, mapVars, geojsonByLayer, lastLoadTimeRef, zoomDebounceTimer,
                   lastOutcome,
                   notSchedVars>>

\* map.on("zoomend"): the debounce timer is set again
ZoomEnd ==
    /\ mapLoaded
    /\ zoomDebounceTimer' = Some(now + ZOOM_DEBOUNCE_MS)
    /\ burst' = BurstOver
    /\ UNCHANGED <<now, mapVars, reactVars, refVars, throttleTimer, requestVars,
                   lastOutcome, gesture,
                   notSchedVars>>

\* The debounced callback of "zoomend" runs.
ZoomDebounceFire ==
    /\ IsSome(zoomDebounceTimer)
    /\ now >= Get(zoomDebounceTimer)
    /\ zoomDebounceTimer' = None
    /\ SettleOnLayer(FALSE)
    /\ burst' = BurstOver
    /\ UNCHANGED <<now, mapVars, geojsonByLayer, lastLoadTimeRef, throttleTimer,
                   lastOutcome, gesture,
                   notSchedVars>>

\* The callback of the throttle timer runs.
ThrottleFire ==
    /\ IsSome(throttleTimer)
    /\ now >= Get(throttleTimer).due
    /\ throttleTimer' = None
    /\ lastLoadTimeRef' = now
    /\ mapBounds' = Some(Get(throttleTimer).newBounds)
    /\ UNCHANGED <<activeLayer, loadedBounds>>
    /\ EffectIf(TRUE)
    /\ burst' = IF burst.events # <<>> /\ ~IsSome(burst.fired)
                 THEN [burst EXCEPT !.fired =
                          Some([target |-> Get(throttleTimer).newBounds,
                                started |-> EffectStarts(TRUE)])]
                 ELSE burst
    /\ UNCHANGED <<now, mapVars, geojsonByLayer, loadedBoundsRef, activeLayerRef,
                   previousLayerRef, zoomDebounceTimer, lastOutcome, gesture,
                   notSchedVars>>

\* map.on("load"): the handlers are registered and the initial layer and
\* bounds are set.
MapLoad ==
    /\ ~mapLoaded
    /\ mapLoaded' = TRUE
    /\ previousLayerRef' = getLayerForZoom(zoom)
    /\ activeLayerRef' = getLayerForZoom(zoom)
    /\ activeLayer' = getLayerForZoom(zoom)
    /\ mapBounds' = Some(calculatePaddedBounds(view))
    /\ loadedBoundsRef' = NoLayers
    /\ UNCHANGED loadedBounds
    /\ EffectIf(TRUE)
    /\ UNCHANGED <<now, engineReady, zoom, view, geojsonByLayer, lastLoadTimeRef,
                   timerVars, burst, lastOutcome, gesture,
                   notSchedVars>>

\* wasm, mapData and plan become available: the effect runs again.
EngineReady ==
    /\ ~engineReady
    /\ engineReady' = TRUE
    /\ UNCHANGED <<activeLayer, mapBounds, loadedBounds>>
    /\ RunEffect(TRUE, activeLayer, mapBounds, loadedBounds)
    /\ burst' = BurstOver
    /\ UNCHANGED <<now, mapLoaded, zoom, view, geojsonByLayer, refVars, timerVars,
                   lastOutcome, gesture,
                   notSchedVars>>

\* Time passes.
Tick(d) ==
    /\ now + d \in Instants
    /\ now' = now + d
    /\ burst' = BurstAfterTick(now + d)
    /\ UNCHANGED <<mapVars, reactVars, refVars, timerVars, requestVars,
                   lastOutcome, gesture,
                   notSchedVars>>

\* Panning and zooming, time being read once per throttle period.
SchedNext ==
    \/ MapLoad
    \/ EngineReady
    \/ \E v \in ZoomViews : Move(v)
    \/ \E z \in Zooms, v \in ZoomViews : Zoom(z, v)
    \/ MoveEnd
    \/ ZoomEnd
    \/ ZoomDebounceFire
    \/ ThrottleFire
    \/ \E r \in RequestIds, o \in LoadOutcomes : CompleteLoad(r, o)
    \/ Tick(THROTTLE_DELAY_MS)

\* Panning at one zoom level, time being read at every instant.
ThrottleNext ==
    \/ MapLoad
    \/ EngineReady
    \/ \E v \in Views : Move(v)
    \/ MoveEnd
    \/ ThrottleFire
    \/ \E r \in RequestIds, o \in LoadOutcomes : CompleteLoad(r, o)
    \/ \E d \in TickSteps : Tick(d)

\* Zooming between the coarsest and the finest layer over one viewport, what
\* each call of loadCurrentLayer did being observed.
OutcomeZooms == {DEFAULT_ZOOM, 120}
OutcomeNext ==
    \/ MapLoad
    \/ EngineReady
    \/ \E z \in OutcomeZooms : Zoom(z, ViewHome)
    \/ MoveEnd
    \/ ZoomEnd
    \/ ZoomDebounceFire
    \/ ThrottleFire
    \/ \E r \in RequestIds, o \in LoadOutcomes : CompleteLoad(r, o)
    \/ Tick(THROTTLE_DELAY_MS)

\* Panning between two viewports and zooming between the coarsest and the
\* finest layer, without the debounced "zoomend".
ResultNext ==
    \/ MapLoad
    \/ EngineReady
    \/ \E v \in ZoomViews : Move(v)
    \/ \E z \in OutcomeZooms : Zoom(z, ViewHome)
    \/ MoveEnd
    \/ ThrottleFire
    \/ \E r \in RequestIds, o \in LoadOutcomes : CompleteLoad(r, o)
    \/ Tick(THROTTLE_DELAY_MS)

\* Panning while the engine answers no request: no call of loadLayerGeoJSON
\* comes back.
HangNext ==
    \/ MapLoad
    \/ EngineReady
    \/ \E v \in Views : Move(v)
    \/ MoveEnd
    \/ ThrottleFire
    \/ \E d \in TickSteps : Tick(d)

\* Panning and zooming, every request giving a feature collection.
SettleNext ==
    \/ MapLoad
    \/ EngineReady
    \/ \E v \in ZoomViews : Move(v)
    \/ \E z \in OutcomeZooms : Zoom(z, ViewHome)
    \/ MoveEnd
    \/ ThrottleFire
    \/ \E r \in RequestIds : CompleteLoad(r, "ok")
    \/ Tick(THROTTLE_DELAY_MS)

\* ---- changes of the plan ---------------------------------------------------

\* Changes of the plan in a behaviour.
MaxPlanUpdates == 2

PlanInit == planUpdateTrigger = 0

\* handleRandomize, handleOptimize: the plan is changed in place and
\* setPlanUpdateTrigger((prev) => prev + 1) runs the effect again.  (When
\* the engine throws, nothing is set.)
PlanChanged ==
    /\ engineReady
    /\ planUpdateTrigger < MaxPlanUpdates
    /\ planUpdateTrigger' = planUpdateTrigger + 1
    /\ RunEffect(engineReady, activeLayer, mapBounds, loadedBounds)
    /\ UNCHANGED notPlanVars

\* Panning, and changes of the plan.
PlanNext ==
    \/ MapLoad
    \/ EngineReady
    \/ \E v \in ZoomViews : Move(v)
    \/ MoveEnd
    \/ ThrottleFire
    \/ \E r \in RequestIds, o \in LoadOutcomes : CompleteLoad(r, o)
    \/ Tick(THROTTLE_DELAY_MS)
    \/ PlanChanged

(***************************************************************************)
(* DISTRICT GEOMETRIES (App.tsx)                                           *)
(***************************************************************************)

\* WasmPlan objects created in a behaviour.
MaxPlans == 2
PlanIds == 1..MaxPlans
\* Changes in place of the plans in a behaviour.
MaxPlanChanges == 2

VisualizationModes == {"default", "districts", "partisan"}

DistrictInit ==
    /\ plan = 0
    /\ planContents = [p \in PlanIds |-> 0]
    /\ planUpdateTriggerApp = 0
    /\ visualizationMode = "default"
    /\ districtGeoJson = None
    /\ computingDistricts = FALSE
    /\ districtPlanVersionRef = -1
    /\ computation = None

\* The effect on [planUpdateTrigger]: setDistrictGeoJson(null) when the
\* trigger is not the one the geometries were computed at.
Invalidated(trigger, geo) ==
    IF trigger # districtPlanVersionRef THEN None ELSE geo

\* The effect on [visualizationMode, plan, districtGeoJson,
\* computingDistricts], with the state of the render it runs after: it calls
\* computeDistrictGeometries, which sets computingDistricts and waits 100 ms.
AutoCompute(mode, p, trigger, geo, computing) ==
    IF mode = "districts" /\ p # 0 /\ ~IsSome(geo) /\ ~computing
    THEN /\ computingDistricts' = TRUE
         /\ computation' = Some([plan |-> p, planUpdateTrigger |-> trigger])
    ELSE /\ computingDistricts' = computing
         /\ UNCHANGED computation

\* The effect on [wasm, mapData, numDistricts] runs (the map data arrived,
\* or the user changed the number of districts): a new WasmPlan is made,
\* randomized and set.
CreatePlan ==
    /\ plan < MaxPlans
    /\ plan' = plan + 1
    /\ AutoCompute(visualizationMode, plan', planUpdateTriggerApp,
                   districtGeoJson, computingDistricts)
    /\ UNCHANGED <<planContents, planUpdateTriggerApp, visualizationMode,
                   districtGeoJson, districtPlanVersionRef>>
    /\ UNCHANGED notDistrictVars

\* handleRandomize, handleOptimize: the plan is changed in place and the
\* trigger is incremented; the effects follow.
ChangePlan ==
    /\ plan # 0
    /\ planUpdateTriggerApp < MaxPlanChanges
    /\ planContents' = [planContents EXCEPT ![plan] = @ + 1]
    /\ planUpdateTriggerApp' = planUpdateTriggerApp + 1
    /\ districtGeoJson' = Invalidated(planUpdateTriggerApp', districtGeoJson)
    /\ AutoCompute(visualizationMode, plan, planUpdateTriggerApp',
                   districtGeoJson', computingDistricts)
    /\ UNCHANGED <<plan, visualizationMode, districtPlanVersionRef>>
    /\ UNCHANGED notDistrictVars

\* onVisualizationModeChange(mode)
SetVisualizationMode(mode) ==
    /\ mode # visualizationMode
    /\ visualizationMode' = mode
    /\ AutoCompute(mode, plan, planUpdateTriggerApp, districtGeoJson,
                   computingDistricts)
    /\ UNCHANGED <<plan, planContents, planUpdateTriggerApp, districtGeoJson,
                   districtPlanVersionRef>>
    /\ UNCHANGED notDistrictVars

\* computeDistrictGeometries goes on after its await: the geometries of the
\* plan object of its render, as that object is now, are set and the trigger
\* of its render is noted; or the engine throws and null is set.  finally:
\* setComputingDistricts(false), after which the effect runs again.
ComputeDistrictsDone(ok) ==
    /\ IsSome(computation)
    /\ LET c == Get(computation)
       IN  /\ districtGeoJson' =
                 IF ok THEN Some([plan |-> c.plan, contents |-> planContents[c.plan]])
                 ELSE None
           /\ districtPlanVersionRef' =
                 IF ok THEN c.planUpdateTrigger ELSE districtPlanVersionRef
    /\ IF visualizationMode = "districts" /\ plan # 0 /\ ~IsSome(districtGeoJson')
       THEN /\ computingDistricts' = TRUE
            /\ computation' = Some([plan |-> plan,
                                    planUpdateTrigger |-> planUpdateTriggerApp])
       ELSE /\ computingDistricts' = FALSE
            /\ computation' = None
    /\ UNCHANGED <<plan, planContents, planUpdateTriggerApp, visualizationMode>>
    /\ UNCHANGED notDistrictVars

DistrictNext ==
    \/ CreatePlan
    \/ ChangePlan
    \/ \E mode \in VisualizationModes : SetVisualizationMode(mode)
    \/ \E ok \in BOOLEAN : ComputeDistrictsDone(ok)

(***************************************************************************)
(* BOUNDS PREDICATES ON THEIR OWN                                          *)
(***************************************************************************)

\* Windows with every coordinate an even number up to 2 * MaxCoord,
\* well-formed or not.
MaxCoord == 2
Coords == {2 * i : i \in 0..MaxCoord}
Windows == Coords \X Coords \X Coords \X Coords


BoundsInit ==
    /\ boundsA \in Windows
    /\ boundsB = boundsA

\* boundsB becomes the padded boundsA
PadWindow ==
    /\ boundsB' = calculatePaddedBounds(boundsA)
    /\ UNCHANGED <<boundsA, notBoundsVars>>

\* boundsA is replaced by another window
PickWindow(w) ==
    /\ boundsA' = w
    /\ UNCHANGED <<boundsB, notBoundsVars>>

BoundsNext ==
    \/ PadWindow
    \/ \E w \in Windows : PickWindow(w)

(***************************************************************************)
(* RESOLUTION SELECTOR                                                     *)
(***************************************************************************)

\* The thresholds of App.tsx, in tenths of a zoom level.
APP_ZOOM_THRESHOLD_COUNTY_TO_VTD == 80
APP_ZOOM_THRESHOLD_VTD_TO_BLOCK == 120

getLayerForZoomApp(z) ==
    IF z < APP_ZOOM_THRESHOLD_COUNTY_TO_VTD THEN "county"
    ELSE IF z < APP_ZOOM_THRESHOLD_VTD_TO_BLOCK THEN "vtd"
    ELSE "block"

\* The zoom levels map.getZoom() returns, in tenths: 0 up to MaxZoomTenths.
MaxZoomTenths == 130
ZoomLevels == 0..MaxZoomTenths

\* useState(DEFAULT_ZOOM), useState(DEFAULT_LAYER), useRef(DEFAULT_LAYER)
SelInit ==
    /\ selZoom = DEFAULT_ZOOM
    /\ selLayer = DEFAULT_LAYER
    /\ selLayerApp = DEFAULT_LAYER
    /\ selPrevious = DEFAULT_LAYER
    /\ selEarlier = None

\* map.on("zoom"): the selector is called with the map's zoom level, and the
\* layer it returns becomes the active one
SelectLayer(z) ==
    /\ selZoom' = z
    /\ selLayer' = getLayerForZoom(z)
    /\ selLayerApp' = getLayerForZoomApp(z)
    /\ selPrevious' = selLayer
    /\ UNCHANGED <<selEarlier, notSelVars>>

\* the last call is kept for comparison with the calls that follow
RememberCall ==
    /\ selEarlier' = Some([zoom |-> selZoom, layer |-> selLayer,
                           layerApp |-> selLayerApp])
    /\ UNCHANGED <<selZoom, selLayer, selLayerApp, selPrevious, notSelVars>>

SelNext ==
    \/ \E z \in ZoomLevels : SelectLayer(z)
    \/ RememberCall

(***************************************************************************)
(* ACTIVE LAYER AND UNIT LAYERS (App.tsx)                                  *)
(***************************************************************************)

\* allLayers, of the "zoom" handler and of the tile-source effect
allLayers == {"state", "county", "tract", "group", "vtd", "block"}

\* 'fill-opacity': isActive ? 0.7 : 0, for every layer of allLayers, in tenths
FillOpacityFor(active) == [l \in allLayers |-> IF l = active THEN 7 ELSE 0]

\* The layer the "load" handler takes as the first one whatever the zoom is.
InitialLayerDefault(z) == DEFAULT_LAYER

\* the "load" handler: initialLayer = getLayerForZoom(map.getZoom())
InitialLayer(z) == getLayerForZoomApp(z)

\* The unit layers added with the default layer as the visible one.
AddedLayersDefault(z) == FillOpacityFor(DEFAULT_LAYER)

\* the tile-source effect: initialLayer = getLayerForZoom(map.getZoom()), and
\* every layer is added with the fill-opacity of isActive
AddedLayers(z) == FillOpacityFor(getLayerForZoomApp(z))

\* new maplibregl.Map({zoom: DEFAULT_ZOOM}), useRef(DEFAULT_LAYER),
\* useState(false)
TierInit ==
    /\ tierZoom = DEFAULT_ZOOM
    /\ tierMapLoaded = FALSE
    /\ tierPrevious = DEFAULT_LAYER
    /\ tierActive = DEFAULT_LAYER
    /\ tierBufferReady = FALSE
    /\ fillOpacity = None

\* The map's zoom changes to z.  Once "load" has fired the "zoom" handler
\* runs: on a new layer it sets the two refs and the fill-opacity of the unit
\* layers that exist (map.getLayer(fillLayerId)).
TierZoom(z) ==
    /\ z # tierZoom
    /\ tierZoom' = z
    /\ LET newLayer == getLayerForZoomApp(z)
           handled == tierMapLoaded /\ newLayer # tierPrevious
       IN  /\ tierPrevious' = IF handled THEN newLayer ELSE tierPrevious
           /\ tierActive' = IF handled THEN newLayer ELSE tierActive
           /\ fillOpacity' = IF handled /\ IsSome(fillOpacity)
                             THEN Some(FillOpacityFor(newLayer))
                             ELSE fillOpacity
    /\ UNCHANGED <<tierMapLoaded, tierBufferReady, notTierVars>>

\* map.on("load"): the "zoom" handler is registered, the refs are set from
\* the map's zoom, setMapInitialized(true)
TierMapLoad ==
    /\ ~tierMapLoaded
    /\ tierMapLoaded' = TRUE
    /\ tierPrevious' = InitialLayer(tierZoom)
    /\ tierActive' = InitialLayer(tierZoom)
    /\ UNCHANGED <<tierZoom, tierBufferReady, fillOpacity, notTierVars>>

\* loadIllinoisPack: setPmtilesBufferReady(true)
TierBufferReady ==
    /\ ~tierBufferReady
    /\ tierBufferReady' = TRUE
    /\ UNCHANGED <<tierZoom, tierMapLoaded, tierPrevious, tierActive, fillOpacity,
                   notTierVars>>

\* The tile-source effect, with mapInitialized and pmtilesBufferReady true and
\* loadedSourcesRef without "all": the source and the unit layers are added.
AddUnitLayers ==
    /\ tierMapLoaded
    /\ tierBufferReady
    /\ fillOpacity = None
    /\ fillOpacity' = Some(AddedLayers(tierZoom))
    /\ UNCHANGED <<tierZoom, tierMapLoaded, tierPrevious, tierActive,
                   tierBufferReady, notTierVars>>

TierNext ==
    \/ \E z \in ZoomLevels : TierZoom(z)
    \/ TierMapLoad
    \/ TierBufferReady
    \/ AddUnitLayers

(***************************************************************************)
(* PACK FILES (loadPack.ts)                                                *)
(***************************************************************************)

\* loadPromises: the files asked for, by their place in the list.
MaxFiles == 3
totalFiles == MaxFiles
PackFileNames == 1..totalFiles

\* How the fetch of a file can go: the response is ok and its body is read,
\* the response is not ok, fetch rejects, or response.arrayBuffer() rejects.
FetchOutcomes == {"ok", "notOk", "fetchFailed", "bodyFailed"}

\* The promise of a file without its .catch: a failure rejects it.
FileResultUncaught(outcome) ==
    IF outcome = "ok" THEN "loaded"
    ELSE IF outcome = "notOk" THEN "null"
    ELSE "rejected"

\* fetch(filePath).then(...).catch(...): [fileName, bytes] when the response
\* is ok and its body is read, null otherwise
FileResult(outcome) == IF outcome = "ok" THEN "loaded" ELSE "null"

\* let loadedCount = 0; nothing has settled when Promise.all is awaited
PackLoadInit ==
    /\ fetchOutcome = [f \in PackFileNames |-> "pending"]
    /\ fileResult = [f \in PackFileNames |-> "pending"]
    /\ tracked = {}
    /\ loadedCount = 0
    /\ progressCalls = <<>>
    /\ files = None
    /\ loadPc = "awaiting"

\* The promise of file f settles.  A rejected one rejects its tracked promise
\* and with it Promise.all and the call.
FileSettles(f, outcome) ==
    /\ loadPc = "awaiting"
    /\ fetchOutcome[f] = "pending"
    /\ fetchOutcome' = [fetchOutcome EXCEPT ![f] = outcome]
    /\ fileResult' = [fileResult EXCEPT ![f] = FileResult(outcome)]
    /\ loadPc' = IF FileResult(outcome) = "rejected" THEN "rejected" ELSE loadPc
    /\ UNCHANGED <<tracked, loadedCount, progressCalls, files, notPackLoadVars>>

\* The callback of the tracked promise of f runs: loadedCount++,
\* onProgress(loadedCount, totalFiles, fileName)
TrackProgress(f) ==
    /\ loadPc = "awaiting"
    /\ fileResult[f] \in {"loaded", "null"}
    /\ f \notin tracked
    /\ tracked' = tracked \cup {f}
    /\ loadedCount' = loadedCount + 1
    /\ progressCalls' = Append(progressCalls,
                           [current |-> loadedCount', total |-> totalFiles,
                            fileName |-> f])
    /\ UNCHANGED <<fetchOutcome, fileResult, files, loadPc, notPackLoadVars>>

\* await Promise.all(trackedPromises) resolves: the results that are not null
\* are entered in files, which is returned
PackReturns ==
    /\ loadPc = "awaiting"
    /\ tracked = PackFileNames
    /\ files' = Some({f \in PackFileNames : fileResult[f] = "loaded"})
    /\ loadPc' = "returned"
    /\ UNCHANGED <<fetchOutcome, fileResult, tracked, loadedCount, progressCalls,
                   notPackLoadVars>>

PackLoadNext ==
    \/ \E f \in PackFileNames, o \in FetchOutcomes : FileSettles(f, o)
    \/ \E f \in PackFileNames : TrackProgress(f)
    \/ PackReturns

(***************************************************************************)
(* STARTUP (App.tsx)                                                       *)
(***************************************************************************)

StartInit ==
    /\ wasm = FALSE
    /\ packPc = "idle"
    /\ pmtilesBuffer = None
    /\ pmtilesBufferReady = FALSE
    /\ mapInitialized = FALSE
    /\ sourceAdded = FALSE
    /\ loadingPack = FALSE
    /\ packStatus = ""

\* catch: setLoadingStatus('Error loading pack'), and then finally:
\* setLoadingPack(false), setLoadingStatus('').  What the two leave.
PackFailed ==
    /\ loadingPack' = FALSE
    /\ packStatus' = ""

\* finally, after the try block ran to its end
PackDone ==
    /\ loadingPack' = FALSE
    /\ packStatus' = ""

\* useWasm resolves: the effect on [wasm] calls loadIllinoisPack, which runs
\* to await loadPackFromDirectory(...)
WasmLoaded ==
    /\ ~wasm
    /\ wasm' = TRUE
    /\ packPc' = "loadPack"
    /\ loadingPack' = TRUE
    /\ packStatus' = "Loading pack files..."
    /\ UNCHANGED <<pmtilesBuffer, pmtilesBufferReady, mapInitialized, sourceAdded,
                   cachedPMTilesBuffer, notStartVars>>

\* await loadPackFromDirectory completes: loadAndCachePMTiles is awaited, or
\* the catch block is entered
PackFilesLoaded(ok) ==
    /\ packPc = "loadPack"
    /\ packPc' = IF ok THEN "download" ELSE "failed"
    /\ IF ok THEN /\ packStatus' = "Downloading geometry tiles..."
                  /\ UNCHANGED loadingPack
             ELSE PackFailed
    /\ UNCHANGED <<wasm, pmtilesBuffer, pmtilesBufferReady, mapInitialized,
                   sourceAdded, cachedPMTilesBuffer, notStartVars>>

\* await loadAndCachePMTiles resolves with buffer: setPMTilesBuffer(buffer),
\* setPmtilesBufferReady(true), and two animation frames are awaited
DownloadResolved(buffer) ==
    /\ packPc = "download"
    /\ pmtilesBuffer' = Some(buffer)
    /\ cachedPMTilesBuffer' = Some(buffer)
    /\ packPc' = "frames"
    /\ pmtilesBufferReady' = TRUE
    /\ packStatus' = "Initializing map..."
    /\ UNCHANGED loadingPack
    /\ UNCHANGED <<wasm, mapInitialized, sourceAdded, notStartVars>>

\* await loadAndCachePMTiles rejects: the catch block is entered
DownloadRejected ==
    /\ packPc = "download"
    /\ packPc' = "failed"
    /\ PackFailed
    /\ UNCHANGED <<wasm, pmtilesBuffer, pmtilesBufferReady, mapInitialized,
                   sourceAdded, cachedPMTilesBuffer, notStartVars>>

\* the animation frames have passed: new WasmMap(packFiles) and setMapData,
\* or the constructor throws
EngineBuilt(ok) ==
    /\ packPc = "frames"
    /\ packPc' = IF ok THEN "done" ELSE "failed"
    /\ IF ok THEN PackDone ELSE PackFailed
    /\ UNCHANGED <<wasm, pmtilesBuffer, pmtilesBufferReady, mapInitialized,
                   sourceAdded, cachedPMTilesBuffer, notStartVars>>

\* map.on("load"): setMapInitialized(true)
MapInitialized ==
    /\ ~mapInitialized
    /\ mapInitialized' = TRUE
    /\ UNCHANGED <<loadingPack, packStatus>>
    /\ UNCHANGED <<wasm, packPc, pmtilesBuffer, pmtilesBufferReady, sourceAdded,
                   cachedPMTilesBuffer, notStartVars>>

\* An effect that waits for the map only.
TileSourceWantedMapOnly ==
    /\ mapInitialized
    /\ ~sourceAdded

\* The effect on [mapInitialized, pmtilesBufferReady] goes past its guard
\* and finds that the source is not there yet.
TileSourceWanted ==
    /\ mapInitialized
    /\ pmtilesBufferReady
    /\ ~sourceAdded

\* the effect on [mapInitialized, pmtilesBufferReady], run by React after the
\* render that follows a change of either: map.addSource("units-all", ...)
AddTileSource ==
    /\ TileSourceWanted
    /\ sourceAdded' = TRUE
    /\ UNCHANGED <<loadingPack, packStatus>>
    /\ UNCHANGED <<wasm, packPc, pmtilesBuffer, pmtilesBufferReady, mapInitialized,
                   cachedPMTilesBuffer, notStartVars>>

\* The requests of the PMTiles source of the renderer: ranged GETs with a
\* Headers object.
RendererInits ==
    {[method |-> None,
      headers |-> Some([kind |-> "Headers", entries |-> << <<"range", v>> >>])] :
        v \in {BytesRange(0, 1), BytesRange(0, 2), BytesRange(1, 2), BytesFrom(1)}}

\* The renderer reads the archive for the source it was given: the protocol
\* handler calls fetch for the archive's URL.
RendererRead(init) ==
    /\ sourceAdded
    /\ Fetch(UrlArchive, init)

StartNext ==
    \/ WasmLoaded
    \/ \E ok \in BOOLEAN : PackFilesLoaded(ok)
    \/ \E buffer \in Payloads : DownloadResolved(buffer)
    \/ DownloadRejected
    \/ \E ok \in BOOLEAN : EngineBuilt(ok)
    \/ MapInitialized
    \/ AddTileSource
    \/ \E init \in RendererInits : RendererRead(init)

(***************************************************************************)
(* INSTALLATION OF THE INTERCEPTOR (pmtilesCache, main.tsx, App.tsx)       *)
(***************************************************************************)

MaxSetupCalls == 3

\* The modules that import "./pmtilesCache": main.tsx first of all its
\* imports, then App.tsx and cacheUtils.ts.
ImportSites == {"main", "App", "cacheUtils"}

InstallInit ==
    /\ importsDone = {}
    /\ fetchLayers = <<>>
    /\ pmtilesProtocolSetup = FALSE
    /\ protocolsAdded = 0
    /\ setupCalls = 0

\* globalThis.fetch: 0 is the platform's fetch, i the interceptor
\* fetchLayers[i].
GlobalFetch == Len(fetchLayers)

\* A loader that evaluates the module at every import of it.
ModuleNotEvaluatedYet(done) == TRUE

\* The module loader evaluates a module at the first import of it only.
ModuleNotEvaluated(done) == done = {}

\* The body of module pmtilesCache: originalFetch = globalThis.fetch;
\* globalThis.fetch = the interceptor
EvaluatePmtilesCache == Append(fetchLayers, [originalFetch |-> GlobalFetch])

\* import "./pmtilesCache" at one of its sites
ImportPmtilesCache(site) ==
    /\ site \notin importsDone
    /\ site # "main" => "main" \in importsDone
    /\ importsDone' = importsDone \cup {site}
    /\ fetchLayers' = IF ModuleNotEvaluated(importsDone)
                         THEN EvaluatePmtilesCache
                         ELSE fetchLayers
    /\ UNCHANGED <<pmtilesProtocolSetup, protocolsAdded, setupCalls,
                   notInstallVars>>

\* setupPmtilesProtocol(), called by the effect that creates the map
SetupPmtilesProtocol ==
    /\ "App" \in importsDone
    /\ setupCalls < MaxSetupCalls
    /\ setupCalls' = setupCalls + 1
    /\ IF pmtilesProtocolSetup
          THEN UNCHANGED <<pmtilesProtocolSetup, protocolsAdded>>
          ELSE /\ protocolsAdded' = protocolsAdded + 1
               /\ pmtilesProtocolSetup' = TRUE
    /\ UNCHANGED <<importsDone, fetchLayers, notInstallVars>>

\* How often a request reaches the network when fetch number f is called
\* with it and every interceptor on the way passes it on.
RECURSIVE NetworkCalls(_, _)
NetworkCalls(layers, f) ==
    IF f = 0 THEN 1 ELSE NetworkCalls(layers, layers[f].originalFetch)

\* How often the last request reached the network: once for each call the
\* interceptor on globalThis.fetch made of the fetch it saved, through the
\* interceptors below it.
NetworkReached ==
    Len(originalFetchCalls)
        * NetworkCalls(fetchLayers, fetchLayers[GlobalFetch].originalFetch)

\* The requests made while the interceptor has no buffer.
InstallRequests ==
    {<<url, init>> : url \in {UrlOther, UrlArchive}, init \in
        {i \in FetchInits : i.headers \in
            {None, Some([kind |-> "Headers",
                         entries |-> << <<"range", BytesRange(0, 1)>> >>])}}}

\* fetch(input, init), called by code that runs after main.tsx's imports
InstalledFetch(input, init) ==
    /\ "main" \in importsDone
    /\ Fetch(input, init)

InstallNext ==
    \/ \E site \in ImportSites : ImportPmtilesCache(site)
    \/ SetupPmtilesProtocol
    \/ \E r \in InstallRequests : InstalledFetch(r[1], r[2])

(***************************************************************************)
(* THE USER'S CACHE COMMANDS (cacheUtils, pmtilesCache)                    *)
(***************************************************************************)

ClearInit ==
    /\ cleared = None
    /\ stats = None

\* The object store after store.clear()
ClearedStore == [u \in ArchiveUrls |-> None]

\* entries.reduce((sum, entry) => sum + entry.size, 0) and entries.length
\* over store.getAll()
RECURSIVE SumSizes(_, _)
SumSizes(store, urls) ==
    IF urls = {} THEN 0
    ELSE LET u == CHOOSE x \in urls : TRUE
         IN  (IF IsSome(store[u]) THEN Get(store[u]).size ELSE 0)
                + SumSizes(store, urls \ {u})

StoreStats(store) ==
    [totalSize |-> SumSizes(store, ArchiveUrls),
     fileCount |-> Cardinality({u \in ArchiveUrls : IsSome(store[u])})]

\* getCacheStats(): a failure to open the database is caught and answered
\* with zeros; a failed request rejects (value None)
GetCacheStatsValue(outcome) ==
    IF outcome = "ok" THEN Some(StoreStats(tiles))
    ELSE IF outcome = "openFailed" THEN Some([totalSize |-> 0, fileCount |-> 0])
    ELSE None

GetCacheStats(outcome) ==
    /\ IdbPossible(outcome)
    /\ db' = IF outcome = "openFailed" THEN db ELSE TRUE
    /\ stats' = Some([value |-> GetCacheStatsValue(outcome),
                      store |-> tiles,
                      afterClear |-> /\ IsSome(cleared)
                                     /\ Get(cleared).resolved
                                     /\ Get(cleared).after = tiles])
    /\ UNCHANGED <<tiles, calls, lastPut, returned, cleared, notClearVars>>

\* clearPMTilesCache() resolves: the store was cleared, or the database did
\* not open and the catch block logged it.  A failed request rejects.
ClearResolves(outcome) == outcome \in {"ok", "openFailed"}

\* clearCache(): confirm(...), await clearPMTilesCache(), return true; false
\* when the user declines or the await throws
ClearCacheResult(confirmed, outcome) == confirmed /\ ClearResolves(outcome)

ClearCacheByUser(confirmed, outcome) ==
    LET clears == confirmed /\ outcome = "ok"
    IN  /\ IdbPossible(outcome)
        /\ ~confirmed => outcome = "ok"
        /\ db' = IF confirmed /\ outcome # "openFailed" THEN TRUE ELSE db
        /\ tiles' = IF clears THEN ClearedStore ELSE tiles
        /\ lastPut' = IF clears THEN [u \in ArchiveUrls |-> None] ELSE lastPut
        /\ returned' = IF clears THEN [u \in ArchiveUrls |-> None] ELSE returned
        /\ calls' = IF clears
                    THEN [c \in CallIds |->
                            [calls[c] EXCEPT !.prior = None, !.putSeen = None]]
                    ELSE calls
        /\ cleared' = Some([confirmed |-> confirmed,
                            resolved |-> confirmed /\ ClearResolves(outcome),
                            result |-> ClearCacheResult(confirmed, outcome),
                            before |-> tiles,
                            after |-> tiles'])
        /\ UNCHANGED <<stats, notClearVars>>

\* The cache filled by calls that meet no failure, and the user's commands.
ClearNext ==
    \/ \E c \in CallIds, u \in ArchiveUrls : StartCall(c, u, FALSE)
    \/ \E c \in CallIds : GetCachedStep(c, "ok")
    \/ \E c \in CallIds : FetchStep(c, "ok", None)
    \/ \E c \in CallIds, n \in 1..MaxArchiveLen : ReadChunk(c, n)
    \/ \E c \in CallIds : ReadDone(c)
    \/ \E c \in CallIds : CacheFileStep(c, "ok")
    \/ Reload
    \/ \E o \in IdbOutcomes : GetCacheStats(o)
    \/ \E confirmed \in BOOLEAN, o \in IdbOutcomes : ClearCacheByUser(confirmed, o)

(***************************************************************************)
(* SPECIFICATIONS                                                          *)
(* Each part of the program is checked on its own, the others at rest.     *)
(***************************************************************************)

BoundsRest == boundsA = <<0, 0, 0, 0>> /\ boundsB = <<0, 0, 0, 0>>
CacheRest == CacheInit /\ originData[UrlArchive] = <<>>
SchedRest == SchedInit /\ burst = NotWatching /\ lastOutcome = NotObserved /\ startLog = StartsNotWatched /\ gesture = GestureNotWatched
LateInit == DistrictInit /\ TierInit /\ PackLoadInit
ExtraRest == SelInit /\ StartInit /\ InstallInit /\ ClearInit /\ PlanInit /\ LateInit

\* The load scheduler
Init == SchedInit /\ burst = NotWatching /\ lastOutcome = NotObserved /\ startLog = StartsNotWatched /\ gesture = GestureNotWatched /\ FetchInit /\ CacheRest /\ BoundsRest /\ ExtraRest
Next == SchedNext
Spec == Init /\ [][Next]_vars

\* The load scheduler under runs of "move" events, which are observed
InitThrottle == SchedInit /\ burst = NoBurst /\ lastOutcome = NotObserved /\ startLog = StartsNotWatched /\ gesture = GestureNotWatched /\ FetchInit /\ CacheRest /\ BoundsRest /\ ExtraRest
NextThrottle == ThrottleNext
SpecThrottle == InitThrottle /\ [][NextThrottle]_vars

\* The load scheduler under panning, the starts of its requests observed
InitPace == SchedInit /\ burst = NotWatching /\ lastOutcome = NotObserved /\ startLog = NoStarts /\ gesture = GestureNotWatched /\ FetchInit /\ CacheRest /\ BoundsRest /\ ExtraRest
NextPace == ThrottleNext
SpecPace == InitPace /\ [][NextPace]_vars

\* The load scheduler under panning and zooming, the outcomes of its
\* requests observed
InitResult == SchedInit /\ burst = NotWatching /\ lastOutcome = NoOutcome /\ startLog = StartsNotWatched /\ gesture = GestureNotWatched /\ FetchInit /\ CacheRest /\ BoundsRest /\ ExtraRest
NextResult == ResultNext
SpecResult == InitResult /\ [][NextResult]_vars

\* The load scheduler when the engine hangs.  The map and the engine come
\* up, time passes and a timer that is due fires; the user may stop moving
\* the map at any time.
InitHang == SchedInit /\ burst = NotWatching /\ lastOutcome = NotObserved /\ startLog = StartsNotWatched /\ gesture = GestureNotWatched /\ FetchInit /\ CacheRest /\ BoundsRest /\ ExtraRest
NextHang == HangNext
SpecHang ==
    /\ InitHang /\ [][NextHang]_vars
    /\ WF_vars(MapLoad) /\ WF_vars(EngineReady) /\ WF_vars(ThrottleFire)
    /\ WF_vars(\E d \in TickSteps : Tick(d))

\* The load scheduler when every request succeeds
InitSettle == SchedInit /\ burst = NotWatching /\ lastOutcome = NotObserved /\ startLog = StartsNotWatched /\ gesture = "ended" /\ FetchInit /\ CacheRest /\ BoundsRest /\ ExtraRest
NextSettle == SettleNext
SpecSettle == InitSettle /\ [][NextSettle]_vars

\* The load scheduler under panning and changes of the plan
InitPlan == SchedInit /\ burst = NotWatching /\ lastOutcome = NotObserved /\ startLog = StartsNotWatched /\ gesture = GestureNotWatched /\ FetchInit /\ CacheRest /\ BoundsRest /\ ExtraRest
NextPlan == PlanNext
SpecPlan == InitPlan /\ [][NextPlan]_vars

\* The district geometries
InitDistrict == DistrictInit /\ TierInit /\ PackLoadInit /\ SchedRest /\ FetchInit /\ CacheRest /\ BoundsRest /\ SelInit /\ StartInit /\ InstallInit /\ ClearInit /\ PlanInit
NextDistrict == DistrictNext
SpecDistrict == InitDistrict /\ [][NextDistrict]_vars

\* The active layer and the unit layers
InitTier == TierInit /\ DistrictInit /\ PackLoadInit /\ SchedRest /\ FetchInit /\ CacheRest /\ BoundsRest /\ SelInit /\ StartInit /\ InstallInit /\ ClearInit /\ PlanInit
NextTier == TierNext
SpecTier == InitTier /\ [][NextTier]_vars

\* The loading of the pack files
InitPackLoad == PackLoadInit /\ DistrictInit /\ TierInit /\ SchedRest /\ FetchInit /\ CacheRest /\ BoundsRest /\ SelInit /\ StartInit /\ InstallInit /\ ClearInit /\ PlanInit
NextPackLoad == PackLoadNext
SpecPackLoad == InitPackLoad /\ [][NextPackLoad]_vars

\* The load scheduler under zooming, the outcomes of its requests observed
InitOutcome == SchedInit /\ burst = NotWatching /\ lastOutcome = NoOutcome /\ startLog = StartsNotWatched /\ gesture = GestureNotWatched /\ FetchInit /\ CacheRest /\ BoundsRest /\ ExtraRest
NextOutcome == OutcomeNext
SpecOutcome == InitOutcome /\ [][NextOutcome]_vars

\* The fetch interceptor
InitFetch == FetchInit /\ SchedRest /\ CacheRest /\ BoundsRest /\ ExtraRest
NextFetch == FetchNext
SpecFetch == InitFetch /\ [][NextFetch]_vars

\* The archive store and its download
InitCache == CacheInit /\ SchedRest /\ FetchInit /\ BoundsRest /\ ExtraRest
NextCache == CacheNext
SpecCache == InitCache /\ [][NextCache]_vars

\* The download while the interceptor holds a payload
InitRedownload == CacheInit /\ FetchInit /\ SchedRest /\ BoundsRest /\ ExtraRest
NextRedownload == RedownloadNext
SpecRedownload == InitRedownload /\ [][NextRedownload]_vars

\* The operations of module pmtilesCache on the active buffer
InitActive == CacheInit /\ FetchInit /\ SchedRest /\ BoundsRest /\ ExtraRest
NextActive == ActiveNext
SpecActive == InitActive /\ [][NextActive]_vars

\* The bounds predicates
InitBounds == BoundsInit /\ SchedRest /\ FetchInit /\ CacheRest /\ ExtraRest
NextBounds == BoundsNext
SpecBounds == InitBounds /\ [][NextBounds]_vars

\* The startup, with the renderer's reads of the archive
InitStartup == LateInit /\ PlanInit /\ ClearInit /\ StartInit /\ SelInit /\ InstallInit /\ SchedRest /\ FetchInit /\ CacheRest /\ BoundsRest
NextStartup == StartNext
SpecStartup == InitStartup /\ [][NextStartup]_vars

\* The installation of the interceptor
InitInstall == LateInit /\ PlanInit /\ ClearInit /\ InstallInit /\ SelInit /\ StartInit /\ SchedRest /\ FetchInit /\ CacheRest /\ BoundsRest
NextInstall == InstallNext
SpecInstall == InitInstall /\ [][NextInstall]_vars

\* The user's cache commands on a cache that calls fill
InitClear == LateInit /\ PlanInit /\ ClearInit /\ CacheInit /\ SelInit /\ StartInit /\ InstallInit /\ SchedRest /\ FetchInit /\ BoundsRest
NextClear == ClearNext
SpecClear == InitClear /\ [][NextClear]_vars

\* The resolution selector
InitSelector == LateInit /\ PlanInit /\ ClearInit /\ SelInit /\ StartInit /\ InstallInit /\ SchedRest /\ FetchInit /\ CacheRest /\ BoundsRest
NextSelector == SelNext
SpecSelector == InitSelector /\ [][NextSelector]_vars

(***************************************************************************)
(* PROPERTIES OF THE LOAD SCHEDULER                                        *)
(***************************************************************************)

\* The requests of a tier that are pending: in flight and not cancelled.
PendingRequests(layer) ==
    {r \in RequestIds : /\ IsSome(inFlight[r])
                        /\ Get(inFlight[r]).layer = layer
                        /\ ~Get(inFlight[r]).aborted}

\* C1: in every reachable state of the load scheduler, each tier has at
\* most one request that is pending (in flight and not cancelled).
ThmC1 == \A layer \in Layers : Cardinality(PendingRequests(layer)) <= 1

\* C1, its case: a tier has a pending request next to a cancelled one that
\* is still in flight.
WitC1 ==
    \E r \in RequestIds, q \in RequestIds :
        /\ IsSome(inFlight[r])
        /\ r \in PendingRequests(Get(inFlight[r]).layer)
        /\ IsSome(inFlight[q])
        /\ Get(inFlight[q]).aborted
        /\ Get(inFlight[q]).layer = Get(inFlight[r]).layer

\* Request r, in flight and cancelled, comes back from its await in this step.
LateResult(r) ==
    /\ IsSome(inFlight[r])
    /\ Get(inFlight[r]).aborted
    /\ ~IsSome(inFlight'[r])

\* Request q is started in this step.
Accepted(q) == ~IsSome(inFlight[q]) /\ IsSome(inFlight'[q])

\* C2: supersession.  When a request is accepted while another is in flight,
\* the other is cancelled; and the result of a cancelled request, whenever
\* it arrives, changes neither the loaded bounds nor the loaded data of any
\* tier.
ThmC2 ==
    [][ /\ \A q \in RequestIds, r \in RequestIds :
              (Accepted(q) /\ r # q /\ IsSome(inFlight[r]))
                  => (IsSome(inFlight'[r]) /\ Get(inFlight'[r]).aborted)
        /\ \A r \in RequestIds :
              LateResult(r) => UNCHANGED <<loadedBounds, geojsonByLayer,
                                           loadedBoundsRef>> ]_vars

\* C2, its case: the request for W1 was cancelled and is still in flight,
\* no request is current any more, and the tier's loaded bounds and data are
\* those of another window.
WitC2 ==
    \E r \in RequestIds :
        /\ IsSome(inFlight[r])
        /\ Get(inFlight[r]).aborted
        /\ loadingRequestRef = None
        /\ LET w1 == Get(inFlight[r])
           IN  /\ IsSome(loadedBounds[w1.layer])
               /\ Get(loadedBounds[w1.layer]) # w1.bounds
               /\ ~doesRequestCoverBounds(w1.bounds, Get(loadedBounds[w1.layer]))
               /\ geojsonByLayer[w1.layer]
                     = Some(LayerData(w1.layer, Get(loadedBounds[w1.layer])))

\* A run of BurstLength "move" events that each needed a load, the last at
\* most BurstSpan after the first, with no other event between them.
RunComplete == Len(burst.events) = BurstLength

\* The windows of the requests started for the run, in order: by its events,
\* and then by the throttle timer.
RunLoads ==
    LET started == SelectSeq(burst.events, LAMBDA e : e.started)
    IN  [i \in 1..Len(started) |-> started[i].target]
          \o (IF IsSome(burst.fired) /\ Get(burst.fired).started
              THEN <<Get(burst.fired).target>> ELSE <<>>)

\* The padded window of the last event of the run.
RunLastTarget == burst.events[Len(burst.events)].target

\* The throttle timer has fired after the run and loadCurrentLayer started a
\* request for it.
RunLoaded == RunComplete /\ IsSome(burst.fired) /\ Get(burst.fired).started

RunDeferred == \A i \in 1..Len(burst.events) : ~burst.events[i].immediate

CexC13 ==
    lastOutcome.completed =>
        /\ lastOutcome.applied \/ lastOutcome.dropped \/ lastOutcome.reported
        /\ ~(lastOutcome.applied /\ lastOutcome.dropped)
        /\ ~(lastOutcome.applied /\ lastOutcome.reported)
        /\ ~(lastOutcome.dropped /\ lastOutcome.reported)

\* In this step the window the effect is handed is, for the tier that stays
\* active, covered by the window of the request that is current and in
\* flight; and no request comes back from its await.
DedupCase ==
    /\ IsSome(loadingRequestRef)
    /\ IsSome(inFlight[Get(loadingRequestRef)])
    /\ activeLayer' = activeLayer
    /\ Get(inFlight[Get(loadingRequestRef)]).layer = activeLayer
    /\ IsSome(mapBounds')
    /\ doesRequestCoverBounds(Get(inFlight[Get(loadingRequestRef)]).bounds,
                              Get(mapBounds'))
    /\ \A q \in RequestIds : IsSome(inFlight[q]) => IsSome(inFlight'[q])

\* C21: deduplication.  While the current request of the active tier is in
\* flight and its window covers the window an event asks for, the event
\* starts no request and cancels none: the requests in flight, the current
\* request, its controller, and the loaded bounds and data stay as they are.
ThmC21 ==
    [][ DedupCase => UNCHANGED <<inFlight, loadingRequestRef,
                                 loadingAbortControllerRef, loadingLayer,
                                 loadedBounds, loadedBoundsRef, geojsonByLayer>>
      ]_vars

\* C21, its case: with nothing loaded for the tier, a "move" event handed
\* its window to the effect at once and no request was started for it,
\* the current request, still in flight, covering that window.
WitC21 ==
    /\ burst.watching
    /\ Len(burst.events) = 1
    /\ burst.events[1].immediate
    /\ ~burst.events[1].started
    /\ engineReady
    /\ ~IsSome(loadedBounds[activeLayer])
    /\ mapBounds = Some(burst.events[1].target)
    /\ IsSome(loadingRequestRef)
    /\ IsSome(inFlight[Get(loadingRequestRef)])
    /\ ~Get(inFlight[Get(loadingRequestRef)]).aborted
    /\ Get(inFlight[Get(loadingRequestRef)]).layer = activeLayer
    /\ doesRequestCoverBounds(Get(inFlight[Get(loadingRequestRef)]).bounds,
                              burst.events[1].target)

MoveStep == view' # view

Completed(r) == IsSome(inFlight[r]) /\ ~IsSome(inFlight'[r])

\* Request r comes back in this step as the current request, with a feature
\* collection that is applied, and nothing is thrown.
Succeeded(r) ==
    /\ Completed(r)
    /\ lastOutcome'.completed
    /\ lastOutcome'.request = r
    /\ lastOutcome'.applied
    /\ ~lastOutcome'.reported

\* C23: when the current request of a tier succeeds, the tier's loaded
\* bounds become the window the request was started with and nothing else,
\* its data become the data returned for that window, the other tiers'
\* loaded bounds and data stay as they are, and no request is pending.
ThmC23 ==
    [][ \A r \in RequestIds : Succeeded(r) =>
          LET req == Get(inFlight[r])
          IN  /\ loadedBounds' = [loadedBounds EXCEPT ![req.layer] = Some(req.bounds)]
              /\ loadedBoundsRef' = [loadedBoundsRef EXCEPT ![req.layer] = Some(req.bounds)]
              /\ geojsonByLayer' = [geojsonByLayer EXCEPT ![req.layer] =
                                      Some(LayerData(req.layer, req.bounds))]
              /\ loadingRequestRef' = None
              /\ loadingLayer' = FALSE
              /\ loadingStatus' = ""
      ]_vars

\* C23, its case: a request of the coarsest tier for the far window has
\* succeeded; that tier's loaded bounds and data are those of the far
\* window, the finest tier's loaded bounds, the window of the initial
\* viewport, are still there, and no request is pending.
WitC23 ==
    /\ lastOutcome.completed
    /\ lastOutcome.applied
    /\ ~lastOutcome.reported
    /\ lastOutcome.layer = "county"
    /\ loadedBounds["county"] = Some(calculatePaddedBounds(ViewFar))
    /\ geojsonByLayer["county"] = Some(LayerData("county", calculatePaddedBounds(ViewFar)))
    /\ loadedBounds["block"] = Some(calculatePaddedBounds(ViewHome))
    /\ loadingRequestRef = None

\* Request r comes back in this step as the current request and fails: no
\* feature collection came back, or something was thrown.
Failed(r) ==
    /\ Completed(r)
    /\ lastOutcome'.completed
    /\ lastOutcome'.request = r
    /\ ~lastOutcome'.dropped
    /\ lastOutcome'.reported

\* C24: when the current request fails, the status shown is that of an
\* error, no request is pending and the loading flag is cleared, and the
\* loaded bounds and data are what they were.
CexC24 ==
    [][ \A r \in RequestIds : Failed(r) =>
          /\ loadingStatus' = "Error loading layer"
          /\ loadingRequestRef' = None
          /\ loadingLayer' = FALSE
          /\ UNCHANGED <<loadedBounds, loadedBoundsRef, geojsonByLayer>>
      ]_vars

\* Request r comes back in this step after it was cancelled or replaced.
CancelledResult(r) ==
    /\ Completed(r)
    /\ Get(inFlight[r]).aborted \/ loadingRequestRef # Some(r)

\* C25: the result of a cancelled request, whatever it is, is dropped
\* without a trace: no failure is reported and the status is not touched,
\* the loading flag, the current request and its controller stay those of
\* the newer request, and the loaded bounds and data stay as they are.
ThmC25 ==
    [][ \A r \in RequestIds : CancelledResult(r) =>
          /\ lastOutcome'.dropped
          /\ ~lastOutcome'.reported
          /\ ~lastOutcome'.applied
          /\ UNCHANGED <<loadingStatus, loadingLayer, loadingRequestRef,
                         loadingAbortControllerRef, loadedBounds,
                         loadedBoundsRef, geojsonByLayer>>
      ]_vars

\* C25, its case: a cancelled request has come back and was dropped while
\* the request that replaced it is still in flight, current, and shown as
\* loading.
WitC25 ==
    /\ lastOutcome.completed
    /\ lastOutcome.dropped
    /\ IsSome(loadingRequestRef)
    /\ Get(loadingRequestRef) # lastOutcome.request
    /\ IsSome(inFlight[Get(loadingRequestRef)])
    /\ ~Get(inFlight[Get(loadingRequestRef)]).aborted
    /\ loadingAbortControllerRef = loadingRequestRef
    /\ loadingLayer
    /\ loadingStatus = "Loading layer..."

\* C34: the loading flag follows the current request.  The flag is up
\* exactly while a request is current, and a current request is in flight
\* and not cancelled; a request that is accepted becomes current and raises
\* the flag; when the current request comes back, with a feature collection,
\* with none or with an exception, the flag is cleared and no request is
\* current; when a cancelled or replaced request comes back, the flag and
\* the current request stay as they are.
ThmC34 ==
    /\ [](loadingLayer <=> IsSome(loadingRequestRef))
    /\ [](IsSome(loadingRequestRef) =>
             /\ IsSome(inFlight[Get(loadingRequestRef)])
             /\ ~Get(inFlight[Get(loadingRequestRef)]).aborted)
    /\ [][ \A r \in RequestIds :
             /\ Accepted(r) => (loadingLayer' /\ loadingRequestRef' = Some(r))
             /\ (Completed(r) /\ loadingRequestRef = Some(r)) =>
                   (~loadingLayer' /\ loadingRequestRef' = None)
             /\ (Completed(r) /\ loadingRequestRef # Some(r)) =>
                   UNCHANGED <<loadingLayer, loadingRequestRef>>
       ]_vars

\* C34, its case: the current request has come back with no feature
\* collection; the flag is down and no request is current or in flight.
WitC34 ==
    /\ lastOutcome.completed
    /\ ~lastOutcome.applied
    /\ ~lastOutcome.dropped
    /\ lastOutcome.reported
    /\ loadingStatus = ""
    /\ ~loadingLayer
    /\ loadingRequestRef = None
    /\ \A r \in RequestIds : inFlight[r] = None

\* The active tier changes in this step.
TierSwitch == activeLayer' # activeLayer

\* The loaded bounds of layer hold the viewport v, by isViewportWithinBounds.
LoadedCovers(loaded, layer, v) ==
    IsSome(loaded[layer]) /\ isViewportWithinBounds(v, Get(loaded[layer]))

CexC27 ==
    [][ (planUpdateTrigger' # planUpdateTrigger
            /\ IsSome(loadedBounds[activeLayer])) =>
          \E q \in RequestIds :
              /\ Accepted(q)
              /\ Get(inFlight'[q]).layer = activeLayer
      ]_vars

\* The windows compared: those of the grid, and their padded windows.
ComparedWindows == Windows \cup {calculatePaddedBounds(w) : w \in Windows}

\* C30 as stated: there are a viewport and loaded bounds, the pair at hand
\* or another of the windows compared, for which isViewportWithinBounds and
\* doesViewportExceedBounds are both true or both false.
CexC30 ==
    \E v \in ComparedWindows \cup {boundsA}, l \in ComparedWindows \cup {boundsB} :
        isViewportWithinBounds(v, l) <=> doesViewportExceedBounds(v, l)

\* C30, amended: doesViewportExceedBounds is the negation of
\* isViewportWithinBounds, both applying the margin outwards.  The predicate
\* that applies it inwards is isViewportOutsideLoadedArea: it is true
\* whenever isViewportWithinBounds is false, and the two are never both
\* false.
ThmC30 ==
    /\ doesViewportExceedBounds(boundsA, boundsB)
            <=> ~isViewportWithinBounds(boundsA, boundsB)
    /\ isViewportWithinBounds(boundsA, boundsB)
            \/ isViewportOutsideLoadedArea(boundsA, boundsB)

\* A viewport compared with other bounds, which hold it with an edge on
\* theirs: isViewportWithinBounds and isViewportOutsideLoadedArea are both
\* true of it, doesViewportExceedBounds is not.
WitC30 ==
    /\ boundsA # boundsB
    /\ isViewportWithinBounds(boundsA, boundsB)
    /\ isViewportOutsideLoadedArea(boundsA, boundsB)
    /\ ~doesViewportExceedBounds(boundsA, boundsB)

\* C33: a request whose engine call never comes back is ended by a timeout
\* as a failure is: whenever the loading flag is up, it comes down in the
\* end, with no request current and the error shown.
CexC33 ==
    loadingLayer ~> (/\ ~loadingLayer
                     /\ loadingRequestRef = None
                     /\ loadingStatus = "Error loading layer")

\* What the scheduler keeps: the React state, the refs, the timers and the
\* requests.
SchedulerState ==
    <<activeLayer, mapBounds, loadedBounds, geojsonByLayer, refVars, timerVars,
      loadingRequestRef, loadingAbortControllerRef, inFlight, loadingLayer,
      loadingStatus>>

\* C29 as stated: a "move" event to a viewport that the loaded bounds of the
\* active tier hold, by isViewportWithinBounds, changes nothing: no request
\* is started, none is deferred.
CexC29 ==
    [][ (MoveStep /\ LoadedCovers(loadedBoundsRef, activeLayerRef, view')) =>
          UNCHANGED SchedulerState
      ]_vars

\* The viewport v keeps BOUNDS_MARGIN away, inwards, from every edge of the
\* loaded bounds of layer.
LoadedHoldsInside(loaded, layer, v) ==
    IsSome(loaded[layer]) /\ ~isViewportOutsideLoadedArea(v, Get(loaded[layer]))

\* C29, amended: a "move" event changes nothing when the viewport keeps
\* BOUNDS_MARGIN away, inwards, from every edge of the loaded bounds of the
\* active tier.  A viewport nearer than that to an edge, though the loaded
\* bounds hold it, has the event start a load for its padded window or
\* defer one to the throttle timer.
ThmC29 ==
    [][ /\ (MoveStep /\ LoadedHoldsInside(loadedBoundsRef, activeLayerRef, view')) =>
              UNCHANGED SchedulerState
        /\ (MoveStep /\ LoadedCovers(loadedBoundsRef, activeLayerRef, view')
               /\ ~LoadedHoldsInside(loadedBoundsRef, activeLayerRef, view')) =>
              \/ /\ mapBounds' = Some(calculatePaddedBounds(view'))
                 /\ lastLoadTimeRef' = now
              \/ /\ IsSome(throttleTimer')
                 /\ Get(throttleTimer').newBounds = calculatePaddedBounds(view')
                 /\ mapBounds' = mapBounds
      ]_vars

\* The map has come back, by a "move" event, well inside the loaded bounds
\* of the active tier, and the timer an earlier event set for another
\* window is as that event left it.
WitC29 ==
    /\ LoadedHoldsInside(loadedBoundsRef, activeLayerRef, view)
    /\ IsSome(throttleTimer)
    /\ Get(throttleTimer).newBounds # calculatePaddedBounds(view)

\* Nothing is left to happen unless the user moves the map again: the map
\* and the engine are up, no request is in flight, no timer is set, and the
\* viewport's last event was the "moveend" that ends a pan or a zoom.
Quiescent ==
    /\ mapLoaded
    /\ engineReady
    /\ \A r \in RequestIds : inFlight[r] = None
    /\ throttleTimer = None
    /\ zoomDebounceTimer = None
    /\ gesture = "ended"

\* C28: eventual coverage.  Once nothing is pending or deferred, every
\* request having succeeded, the loaded bounds of the active layer cover the
\* viewport.  (In such a state no step but the passing of time is possible
\* until the next viewport event, so what is not covered then stays so.)
CexC28 == Quiescent => LoadedCovers(loadedBounds, activeLayer, view)

(***************************************************************************)
(* PROPERTIES OF THE FETCH INTERCEPTOR                                     *)
(***************************************************************************)

\* The last call of fetch asked for the archive while a payload was set.
Matching == /\ IsSome(fetchCall)
            /\ UrlIncludesArchive(Get(fetchCall).input)
            /\ IsSome(Get(fetchCall).cached)

\* The payload that was set when the last call was made, and its length
Payload == Get(Get(fetchCall).cached)
PayloadLen == Len(Payload)

\* The last call was a HEAD request.
IsHead == Get(fetchCall).init.method = Some("HEAD")

\* The last call carried a Range header with value v / carried none.
CarriesRange(v) ==
    /\ IsSome(Get(fetchCall).init.headers)
    /\ \E i \in 1..Len(Get(Get(fetchCall).init.headers).entries) :
          LET entry == Get(Get(fetchCall).init.headers).entries[i]
          IN  ToLowerCase(entry[1]) = "range" /\ entry[2] = v
CarriesNoRange ==
    \/ ~IsSome(Get(fetchCall).init.headers)
    \/ \A i \in 1..Len(Get(Get(fetchCall).init.headers).entries) :
          ToLowerCase(Get(Get(fetchCall).init.headers).entries[i][1]) # "range"

\* The response is a 206 with bytes first..last of the payload as its body
\* and a Content-Range of "bytes first-last/N".
IsPartial(first, last) ==
    /\ Get(fetchResponse).via = "interceptor"
    /\ Get(fetchResponse).status = 206
    /\ Get(fetchResponse).body = Some(SubSeq(Payload, first + 1, last + 1))
    /\ Len(Get(Get(fetchResponse).body)) = last - first + 1
    /\ HeaderValue(Get(fetchResponse).headers, "Content-Range")
          = Some(StrBytesSp \o NumStr(first) \o <<"-">> \o NumStr(last)
                    \o <<"/">> \o NumStr(PayloadLen))

\* What C4 says of a matching request, HEAD or not.
RangeServed ==
    \A first \in 0..(PayloadLen - 1) :
        /\ \A last \in first..(PayloadLen - 1) :
              CarriesRange(BytesRange(first, last)) => IsPartial(first, last)
        /\ CarriesRange(BytesFrom(first)) => IsPartial(first, PayloadLen - 1)

PassedThrough ==
    LET call == Get(fetchCall)
    IN  /\ Get(fetchResponse).via = "network"
        /\ Get(fetchResponse).passed = Some(<<call.input, call.init>>)
        /\ originalFetchCalls = << <<call.input, call.init>> >>

\* C14: every request that does not target the archive that was activated,
\* and every request made while no payload is activated, is forwarded to the
\* original fetch with its arguments unchanged and its response is returned
\* as it is.
CexC14 ==
    (IsSome(fetchCall) /\ (Get(fetchCall).input # UrlArchive
                              \/ ~IsSome(Get(fetchCall).cached)))
        => PassedThrough

\* C14, amended: every request whose URL does not contain the archive's file
\* name, and every request made while no payload is activated, is forwarded
\* to the original fetch with its arguments unchanged and its response is
\* returned as it is.
ThmC14 ==
    (IsSome(fetchCall) /\ (Get(fetchCall).input = UrlOther
                              \/ ~IsSome(Get(fetchCall).cached)))
        => PassedThrough

\* C14, its cases: a ranged HEAD request for another file was forwarded while
\* a payload was activated.
WitC14 ==
    /\ IsSome(fetchCall)
    /\ Get(fetchCall).input = UrlOther
    /\ IsSome(Get(fetchCall).cached)
    /\ Get(fetchCall).init.method = Some("HEAD")
    /\ IsSome(Get(fetchCall).init.headers)
    /\ PassedThrough

\* C15: a matching request whose Range header the interceptor cannot parse
\* (a suffix range, a range in another unit) is passed through to the
\* original fetch, neither answered by the interceptor nor failed.
CexC15 ==
    (Matching /\ (CarriesRange(SuffixRange) \/ CarriesRange(ItemsRange)))
        => PassedThrough

\* C5: a matching request that is not a HEAD request and carries no Range
\* header is answered by the interceptor with status 200 and all N bytes of
\* the payload, and nothing is handed to the original fetch.
ThmC5 ==
    (Matching /\ ~IsHead /\ CarriesNoRange) =>
        /\ Get(fetchResponse).via = "interceptor"
        /\ Get(fetchResponse).status = 200
        /\ Get(fetchResponse).body = Some(Payload)
        /\ originalFetchCalls = <<>>

\* C5, its case: a request without Range was answered with the whole of the
\* longest short payload.
WitC5 ==
    /\ Matching
    /\ ~IsHead
    /\ CarriesNoRange
    /\ IsSome(Get(fetchCall).init.headers)
    /\ PayloadLen = MaxPayloadLen
    /\ Get(fetchResponse).status = 200

\* C6: a matching HEAD request is answered by the interceptor with status
\* 200, no body, Content-Length N and Accept-Ranges: bytes, with or without a
\* Range header, and nothing is handed to the original fetch.
ThmC6 ==
    (Matching /\ IsHead) =>
        /\ Get(fetchResponse).via = "interceptor"
        /\ Get(fetchResponse).status = 200
        /\ Get(fetchResponse).body = None
        /\ HeaderValue(Get(fetchResponse).headers, "Content-Length")
              = Some(NumStr(PayloadLen))
        /\ HeaderValue(Get(fetchResponse).headers, "Accept-Ranges") = Some("bytes")
        /\ originalFetchCalls = <<>>

\* C6, its case: a HEAD request that carried a Range header was answered
\* with status 200 and no body.
WitC6 ==
    /\ Matching
    /\ IsHead
    /\ CarriesRange(BytesRange(0, 1))
    /\ PayloadLen = MaxPayloadLen
    /\ Get(fetchResponse).status = 200
    /\ Get(fetchResponse).body = None

\* The response names, in Content-Range, a range first-last of the N bytes
\* with 0 <= first <= last <= N - 1, and its body and its Content-Length
\* have the length of that range.
PartialContentWellFormed ==
    \E first \in 0..(PayloadLen - 1) : \E last \in first..(PayloadLen - 1) :
        /\ HeaderValue(Get(fetchResponse).headers, "Content-Range")
              = Some(StrBytesSp \o NumStr(first) \o <<"-">> \o NumStr(last)
                        \o <<"/">> \o NumStr(PayloadLen))
        /\ IsSome(Get(fetchResponse).body)
        /\ Len(Get(Get(fetchResponse).body)) = last - first + 1
        /\ HeaderValue(Get(fetchResponse).headers, "Content-Length")
              = Some(NumStr(last - first + 1))

\* C31: every 206 the interceptor answers with is well formed, whatever
\* first and last position the request named: its Content-Range lies inside
\* the payload and agrees with the body and with Content-Length; a range
\* that cannot be satisfied is therefore not answered with 206.
CexC31 ==
    (Matching /\ Get(fetchResponse).via = "interceptor"
              /\ Get(fetchResponse).status = 206)
        => PartialContentWellFormed

(***************************************************************************)
(* PROPERTIES OF THE ARCHIVE STORE AND ITS DOWNLOAD                        *)
(***************************************************************************)

\* C7: round trip.  When getCachedFile(url) reads the store successfully
\* after a successful cacheFile(url, payload), with no later put for url and
\* no clearing of the store in between, it returns that payload.
ThmC7 ==
    \A c \in CallIds :
        (calls[c].readOk /\ IsSome(calls[c].putSeen))
            => calls[c].cached = calls[c].putSeen

\* C7, its case: a call read from the store the longest payload that had
\* been put under the second archive's url.
WitC7 ==
    \E c \in CallIds :
        /\ calls[c].readOk
        /\ calls[c].url = UrlArchive2
        /\ calls[c].putSeen = Some(PayloadOf(MaxArchiveLen, 20))
        /\ calls[c].cached = calls[c].putSeen

\* The loaded values handed to onProgress never decrease.
LoadedNeverDecreases(c) ==
    \A i \in 1..(Len(calls[c].progress) - 1) :
        calls[c].progress[i][1] <= calls[c].progress[i + 1][1]

\* The last call of onProgress had loaded equal to total.
LastLoadedIsTotal(c) ==
    calls[c].progress[Len(calls[c].progress)][1]
        = calls[c].progress[Len(calls[c].progress)][2]

\* The download of call c is over: the body was read to its end, or the call
\* failed.
DownloadOver(c) == calls[c].pc \in {"cacheFile", "done", "failed"}

\* C8 as stated: the loaded values never decrease, and the last call of
\* onProgress of a download has loaded equal to total.
CexC8 ==
    \A c \in CallIds :
        /\ LoadedNeverDecreases(c)
        /\ (DownloadOver(c) /\ calls[c].progress # <<>>) => LastLoadedIsTotal(c)

\* C8, amended: the loaded values never decrease; the last call of
\* onProgress has loaded equal to total when the whole body was read and the
\* Content-Length of the response was the size of the body.
ThmC8 ==
    \A c \in CallIds :
        /\ LoadedNeverDecreases(c)
        /\ (/\ calls[c].progress # <<>>
            /\ TotalSize(calls[c].chunks) = calls[c].bodySize
            /\ calls[c].total = calls[c].bodySize) => LastLoadedIsTotal(c)

\* C8, its case: a download in several chunks completed, and its last
\* progress call had loaded equal to total.
WitC8 ==
    \E c \in CallIds :
        /\ calls[c].pc = "done"
        /\ Len(calls[c].progress) >= 2
        /\ calls[c].total = MaxArchiveLen
        /\ LastLoadedIsTotal(c)

CexC16 ==
    \A c \in CallIds :
        /\ calls[c].pc = "failed" => calls[c].failedAt \notin {"getCachedFile", "cacheFile"}
        /\ (calls[c].pc \in {"fetch", "read", "cacheFile", "done"} /\ ~calls[c].readOk)
              => ~IsSome(calls[c].cached)

Downloading(c) == calls[c].pc \in {"fetch", "read", "cacheFile"}

\* C32: single writer.  However the calls of loadAndCachePMTiles for one
\* archive interleave, no two of them download it at the same time, so that
\* it is fetched and put once.
CexC32 ==
    \A c \in CallIds, d \in CallIds :
        (c # d /\ calls[c].url = calls[d].url) =>
            ~(Downloading(c) /\ Downloading(d))

\* C38: the fetch of the archive download is answered by the network and never
\* by the interceptor, also when a payload is activated for the same URL at
\* the time, as in a download that follows a clearing of the cache.
ThmC38 ==
    \A c \in CallIds :
        IsSome(calls[c].answered) => Get(calls[c].answered).via = "network"

\* A download whose URL the interceptor matches fetched the archive while a
\* payload other than the origin's was activated, the earlier download done
\* and the cache cleared in between, and returned the origin's bytes.
WitC38 ==
    /\ calls[1].pc = "done"
    /\ calls[2].pc = "done"
    /\ ~IsSome(calls[2].cached)
    /\ IsSome(calls[2].answered)
    /\ IsSome(Get(calls[2].answered).buffer)
    /\ Get(Get(calls[2].answered).buffer) # originData[UrlArchive]
    /\ UrlIncludesArchive(calls[2].url)
    /\ calls[2].result = Some(originData[UrlArchive])

\* A step of clearPMTilesCache.
ClearStep == \E o \in IdbOutcomes : ClearCache(o)

\* A step of setPMTilesBuffer.
SetBufferStep == \E buffer \in Payloads : setPMTilesBuffer(buffer)

\* A request the interceptor matches is made.
MatchingFetchStep ==
    \E request \in PlainRequests :
        /\ UrlIncludesArchive(request[1])
        /\ Fetch(request[1], request[2])

\* C39: clearPMTilesCache leaves cachedPMTilesBuffer as it is; while a buffer
\* is activated a matching request is answered by the interceptor with that
\* buffer, after a clearing as before it; and an activated buffer is changed
\* or removed by no step other than one of setPMTilesBuffer.
ThmC39 ==
    [][ /\ ClearStep => cachedPMTilesBuffer' = cachedPMTilesBuffer
        /\ (IsSome(cachedPMTilesBuffer) /\ MatchingFetchStep) =>
               /\ Get(fetchResponse').via = "interceptor"
               /\ Get(fetchResponse').body = Some(Get(cachedPMTilesBuffer))
        /\ (IsSome(cachedPMTilesBuffer)
               /\ cachedPMTilesBuffer' # cachedPMTilesBuffer) => SetBufferStep
      ]_vars

\* A download stored the archive, the store was cleared after it, and the
\* interceptor has answered a matching request with the payload that is still
\* activated.
WitC39 ==
    /\ calls[1].pc = "done"
    /\ calls[1].puts # <<>>
    /\ tiles[UrlArchive] = None
    /\ IsSome(cachedPMTilesBuffer)
    /\ IsSome(fetchCall)
    /\ Get(fetchCall).cached = cachedPMTilesBuffer
    /\ Get(fetchResponse).via = "interceptor"
    /\ Get(fetchResponse).body = Some(Get(cachedPMTilesBuffer))

(***************************************************************************)
(* PROPERTIES OF THE BOUNDS PREDICATES                                     *)
(***************************************************************************)

\* C10: padding never shrinks coverage.  A well-formed window is within its
\* padded window.
ThmC10 ==
    (WellFormed(boundsA) /\ boundsB = calculatePaddedBounds(boundsA))
        => isViewportWithinBounds(boundsA, boundsB)

\* C10, its case: a well-formed window with a width and a height, and its
\* padded window, which is another one.
WitC10 ==
    /\ WellFormed(boundsA)
    /\ East(boundsA) > West(boundsA)
    /\ North(boundsA) > South(boundsA)
    /\ boundsB = calculatePaddedBounds(boundsA)
    /\ boundsB # boundsA
    /\ isViewportWithinBounds(boundsA, boundsB)


(***************************************************************************)
(* PROPERTIES OF THE RESOLUTION SELECTOR                                   *)
(***************************************************************************)

\* The layers from coarse to fine.
Fineness(layer) == CASE layer = "county" -> 1 [] layer = "vtd" -> 2 [] layer = "block" -> 3

\* C11: the selector is a step function over two ascending thresholds
\* T1 < T2: county below T1, vtd from T1 up to but excluding T2, block from
\* T2 on; with T1 = 8 it returns vtd for zoom 9 and county for zoom 7.9.
ThmC11 ==
    /\ ZOOM_THRESHOLD_COUNTY_TO_VTD < ZOOM_THRESHOLD_VTD_TO_BLOCK
    /\ APP_ZOOM_THRESHOLD_COUNTY_TO_VTD < APP_ZOOM_THRESHOLD_VTD_TO_BLOCK
    /\ selZoom < ZOOM_THRESHOLD_COUNTY_TO_VTD => selLayer = "county"
    /\ (ZOOM_THRESHOLD_COUNTY_TO_VTD <= selZoom /\ selZoom < ZOOM_THRESHOLD_VTD_TO_BLOCK)
          => selLayer = "vtd"
    /\ selZoom >= ZOOM_THRESHOLD_VTD_TO_BLOCK => selLayer = "block"
    /\ selZoom < APP_ZOOM_THRESHOLD_COUNTY_TO_VTD => selLayerApp = "county"
    /\ (APP_ZOOM_THRESHOLD_COUNTY_TO_VTD <= selZoom /\ selZoom < APP_ZOOM_THRESHOLD_VTD_TO_BLOCK)
          => selLayerApp = "vtd"
    /\ selZoom >= APP_ZOOM_THRESHOLD_VTD_TO_BLOCK => selLayerApp = "block"
    /\ APP_ZOOM_THRESHOLD_COUNTY_TO_VTD = 80
    /\ selZoom = 90 => selLayerApp = "vtd"
    /\ selZoom = 79 => selLayerApp = "county"

\* the selector has been called at the first threshold itself, after a call
\* at zoom 7.9
WitC11 ==
    /\ selZoom = ZOOM_THRESHOLD_COUNTY_TO_VTD
    /\ selLayer = "vtd"
    /\ IsSome(selEarlier)
    /\ Get(selEarlier).zoom = 79
    /\ Get(selEarlier).layerApp = "county"

\* C12: the selector is monotonic and deterministic: of two calls, the one
\* with the lower zoom level never returns the finer layer, and two calls with
\* the same zoom level return the same layer, whatever calls were made
\* between them and whatever layer was active before each.
ThmC12 ==
    IsSome(selEarlier) =>
        LET e == Get(selEarlier)
        IN  /\ e.zoom <= selZoom =>
                 /\ Fineness(e.layer) <= Fineness(selLayer)
                 /\ Fineness(e.layerApp) <= Fineness(selLayerApp)
            /\ selZoom <= e.zoom =>
                 /\ Fineness(selLayer) <= Fineness(e.layer)
                 /\ Fineness(selLayerApp) <= Fineness(e.layerApp)
            /\ e.zoom = selZoom =>
                 /\ e.layer = selLayer
                 /\ e.layerApp = selLayerApp

\* two calls with the same zoom level, the later made while a finer layer
\* than the one it returns was active
WitC12 ==
    /\ IsSome(selEarlier)
    /\ Get(selEarlier).zoom = selZoom
    /\ Get(selEarlier).layer = selLayer
    /\ Fineness(selPrevious) > Fineness(selLayer)


(***************************************************************************)
(* PROPERTIES OF THE STARTUP                                               *)
(***************************************************************************)

\* C18: the tile source of the archive is on the map only after
\* setPMTilesBuffer was called with the payload loadAndCachePMTiles resolved
\* to, and every read of the archive by the renderer found that payload
\* activated.
ThmC18 ==
    /\ sourceAdded =>
          /\ IsSome(pmtilesBuffer)
          /\ cachedPMTilesBuffer = pmtilesBuffer
    /\ IsSome(fetchCall) =>
          /\ IsSome(Get(fetchCall).cached)
          /\ Get(fetchCall).cached = pmtilesBuffer
          /\ Get(fetchResponse).via = "interceptor"

\* C18, its case: the pack is loaded, the source is on the map and the
\* renderer has read a range of the archive through it.
WitC18 ==
    /\ sourceAdded
    /\ IsSome(fetchCall)
    /\ Get(fetchResponse).status = 206
    /\ packPc = "done"

\* C35: when loadIllinoisPack has finished, the loadingPack flag is down;
\* and when it has failed, at the pack files, at the download or at the
\* construction of the engine, no payload is activated in the interceptor,
\* pmtilesBufferReady is false, the tile source was not added, and the
\* status shown is that of the error.
CexC35 ==
    /\ packPc \in {"done", "failed"} => ~loadingPack
    /\ packPc = "failed" =>
          /\ cachedPMTilesBuffer = None
          /\ ~pmtilesBufferReady
          /\ ~sourceAdded
          /\ packStatus = "Error loading pack"

(***************************************************************************)
(* PROPERTIES OF THE DISTRICT GEOMETRIES                                   *)
(***************************************************************************)

\* C36: the district geometries are never stale: those that are set were
\* computed from the plan object that is current and from what it holds now.
CexC36 ==
    IsSome(districtGeoJson) =>
        districtGeoJson = Some([plan |-> plan, contents |-> planContents[plan]])

(***************************************************************************)
(* PROPERTIES OF THE ACTIVE LAYER                                          *)
(***************************************************************************)

\* The layer the selector returns for the map's zoom.
TierForZoom == getLayerForZoomApp(tierZoom)

\* The two refs hold the layer of the map's zoom.
RefsFollowZoom == tierPrevious = TierForZoom /\ tierActive = TierForZoom

\* Of the unit layers that exist, the one of the map's zoom is the only one
\* with a fill-opacity other than 0.
OneLayerShown ==
    IsSome(fillOpacity) =>
        \A l \in allLayers : (Get(fillOpacity)[l] # 0) <=> (l = TierForZoom)

\* C37, as stated: at any time previousLayerRef and activeLayerRef both hold
\* getLayerForZoom of the map's zoom, and once the unit layers exist exactly
\* the layer of that tier has a fill-opacity other than 0.
CexC37 == RefsFollowZoom /\ OneLayerShown

\* C37, amended: from the map's "load" event on, previousLayerRef and
\* activeLayerRef both hold getLayerForZoom of the map's zoom, and once the
\* unit layers exist exactly the layer of that tier has a fill-opacity other
\* than 0, whether the zoom changed before or after the layers were added.
ThmC37 == (tierMapLoaded => RefsFollowZoom) /\ OneLayerShown

\* The zoom crossed a threshold after "load" and before the unit layers were
\* added, and they are there now.
WitC37 ==
    /\ IsSome(fillOpacity)
    /\ tierActive # DEFAULT_LAYER
    /\ Get(fillOpacity)[tierActive] = 7

(***************************************************************************)
(* PROPERTIES OF THE PACK FILES                                            *)
(***************************************************************************)

\* C40: whatever the order in which the fetches of the files complete,
\* onProgress is called with current = 1, 2, ... in this order and with total
\* the number of files, at most once for a file and, when the call has
\* returned, once for every file, the last call with current = total; no
\* outcome of a file rejects the call; and the returned map holds exactly the
\* files whose fetch succeeded.
ThmC40 ==
    /\ loadPc # "rejected"
    /\ \A i \in 1..Len(progressCalls) :
          /\ progressCalls[i].current = i
          /\ progressCalls[i].total = totalFiles
    /\ \A i, j \in 1..Len(progressCalls) :
          i # j => progressCalls[i].fileName # progressCalls[j].fileName
    /\ loadPc = "returned" =>
          /\ {progressCalls[i].fileName : i \in 1..Len(progressCalls)} = PackFileNames
          /\ Len(progressCalls) = totalFiles
          /\ progressCalls[Len(progressCalls)].current = totalFiles
          /\ files = Some({f \in PackFileNames : fetchOutcome[f] = "ok"})

\* The call has returned; the files completed in an order other than the one
\* they were asked for in, one of them was missing and one failed.
WitC40 ==
    /\ loadPc = "returned"
    /\ progressCalls[1].fileName # 1
    /\ \E f \in PackFileNames : fetchOutcome[f] = "notOk"
    /\ \E f \in PackFileNames : fetchOutcome[f] \in {"fetchFailed", "bodyFailed"}
    /\ \E f \in PackFileNames : fetchOutcome[f] = "ok"

(***************************************************************************)
(* PROPERTIES OF THE INSTALLATION                                          *)
(***************************************************************************)

\* C19: however many imports of the module and calls of the protocol setup
\* have run, there is one interceptor on fetch and one protocol handler, the
\* fetch the interceptor saved is the platform's, and a pass-through
\* request reached the network exactly once.
ThmC19 ==
    /\ importsDone # {} =>
          /\ Len(fetchLayers) = 1
          /\ fetchLayers[1].originalFetch = 0
    /\ protocolsAdded <= 1
    /\ setupCalls > 0 => protocolsAdded = 1
    /\ (IsSome(fetchResponse) /\ Get(fetchResponse).via = "network") =>
          NetworkReached = 1

\* C19, its case: the module was imported at every site, the protocol setup
\* was called more than once, and a pass-through request was made.
WitC19 ==
    /\ importsDone = ImportSites
    /\ setupCalls > 1
    /\ protocolsAdded = 1
    /\ IsSome(fetchResponse)
    /\ Get(fetchResponse).via = "network"

(***************************************************************************)
(* PROPERTIES OF THE USER'S CACHE COMMANDS                                 *)
(***************************************************************************)

\* C20: when the clearing of the cache has resolved, the store answers
\* absent for every archive and its statistics are zero files and zero
\* bytes; clearCache returns true only if the store was cleared; and when
\* the user declined it returns false and the store is as it was.
CexC20 ==
    /\ (IsSome(cleared) /\ Get(cleared).resolved) =>
          /\ \A u \in ArchiveUrls : StoreGetData(Get(cleared).after, u) = None
          /\ StoreStats(Get(cleared).after) = [totalSize |-> 0, fileCount |-> 0]
    /\ (IsSome(stats) /\ Get(stats).afterClear /\ IsSome(Get(stats).value)) =>
          Get(stats).value = Some([totalSize |-> 0, fileCount |-> 0])
    /\ (IsSome(cleared) /\ Get(cleared).result) =>
          Get(cleared).after = ClearedStore
    /\ (IsSome(cleared) /\ ~Get(cleared).confirmed) =>
          /\ ~Get(cleared).result
          /\ Get(cleared).after = Get(cleared).before

=============================================================================
